---- MODULE Spec2Model ----
(***************************************************************************)
(* The multi-agent orchestration of RFX-Agents (src/helper/agents.py):     *)
(* MultiAgent.ask_question drives an AgentGroupChat of four agents with a  *)
(* prompt-defined selection function, a prompt-defined termination         *)
(* function restricted to the Manager, and a cap of 10 iterations; it      *)
(* keeps the last 5 question/answer exchanges in conversation_history.     *)
(*                                                                         *)
(* The language model is the interpreter of the prompts of the source: a   *)
(* prompt-defined function answers what its prompt prescribes, and where   *)
(* the prompt prescribes nothing its answer is a nondeterministic choice.  *)
(***************************************************************************)
EXTENDS Integers, Sequences, FiniteSets, TLC

VARIABLES
  env,                  \* the environment of the behaviour (fixed by Init)
  conversation_history, \* self.conversation_history
  calls,                \* number of ask_question calls made on the object
  pc,                   \* position of the current ask_question call
  question,             \* the question of the current call
  persona_history,      \* exchanges embedded in the QuestionAnswerer's instructions
  chat_history,         \* chat.history: the user message and the agents' messages
  iterations,           \* turns started by chat.invoke()
  has_selected,         \* the selection strategy has selected once
  selected,             \* the agent selected for the turn
  is_complete,          \* chat.is_complete
  content,              \* the message chat.invoke() has just yielded
  agent_interactions,   \* local of ask_question
  final_answer,         \* local of ask_question
  result,               \* what the last ask_question call returned
  outcome,              \* how the last call ended
  raised,               \* the text of the exception the last call caught
  raised_after,         \* the number of messages logged when it was raised
  history0,             \* conversation_history when the current call started
  completed,            \* the exchanges of the calls that completed without exception
  observed,             \* the invocations of ui_callback in the call (kept on completion)
  gate_agent,           \* termination gate, input: the agent that produced the message
  gate_message,         \* termination gate, input: the message
  gate_reply,           \* termination gate: the termination function's reply
  gate_out,             \* termination gate, output: "stop", "continue" or "none"
  pair_history,         \* two chats side by side: the history of each
  pair_next,            \* two chats side by side: the agent selected in each ("" before)
  search_input,         \* search_web: the environment and the arguments of the call
  search_pc,            \* search_web: position of the call
  search_params,        \* search_web: the parameters of the request being built
  search_requests,      \* search_web: the HTTP requests issued
  search_result,        \* search_web: what the call returned or raised
  link_net,             \* link check: the answers the web servers may give
  link_pc,              \* link check: position in extract, validate, summarize
  link_text,            \* link check: the text given to extract_urls
  link_urls,            \* link check: the urls argument of validate_urls
  link_url_list,        \* validate_urls: url_list
  link_lines,           \* validate_urls: results
  link_tasks,           \* validate_urls: the _check_url tasks
  link_requests,        \* link check: the HTTP requests issued
  link_output,          \* link check: what validate_urls returned
  link_summary,         \* link check: what summarize_validation_results returned
  link_again            \* link check: the summary of the summary

runVars ==
  << env, conversation_history, calls, pc, question, persona_history, chat_history,
     iterations, has_selected, selected, is_complete, content, agent_interactions,
     final_answer, result, outcome, raised, raised_after, history0, completed,
     observed >>

gateVars == << gate_agent, gate_message, gate_reply, gate_out >>

pairVars == << pair_history, pair_next >>

\* The state of the components that are exercised on their own
searchVars ==
  << search_input, search_pc, search_params, search_requests, search_result >>

linkVars ==
  << link_net, link_pc, link_text, link_urls, link_url_list, link_lines, link_tasks,
     link_requests, link_output, link_summary, link_again >>

toolVars == << pairVars, searchVars, linkVars >>

vars == << runVars, gateVars, toolVars >>

(***************************************************************************)
(* Bounds of the model.                                                    *)
(***************************************************************************)
\* ask_question calls on one object when every verdict is free
MaxCalls == 1
\* ask_question calls on one object in the history environment
MaxHistoryCalls == 6
\* messages before the latest one in each of two chats side by side
MaxEarlier == 1
\* pieces a text given to extract_urls is made of
MaxPieces == 3
\* URLs in the list given to validate_urls
MaxUrls == 2
\* lines of a report given to summarize_validation_results
MaxLines == 2

(***************************************************************************)
(* Program constants.                                                      *)
(***************************************************************************)
maximum_iterations == 10
history_limit == 5
persona_window == 10

(***************************************************************************)
(* Text.                                                                   *)
(***************************************************************************)
Strings ==
  { "QuestionAnswererAgent", "AnswerCheckerAgent", "LinkCheckerAgent",
    "ManagerAgent", " QuestionAnswererAgent", " AnswerCheckerAgent",
    " LinkCheckerAgent", " ManagerAgent ", "APPROVE",
    "Approve", "approve", "reject",
    "CONTINUE", "continue", "I APPROVE this",
    "not approved", "ANSWER CORRECT.", "ANSWER INCORRECT: outdated",
    "LINKS CORRECT", "LINK INCORRECT - http://x/y", "answer one",
    "answer two", "ANSWER CORRECT", "ANSWER INCORRECT",
    "LINKS INCORRECT", "LINK INCORRECT - ", "timeout",
    "no agent", "Error: ", "Error occurred: ",
    "Error: timeout", "Error: no agent", "Error occurred: timeout",
    "Error occurred: no agent" }

\* The characters of each text of the vocabulary (a Python str is a sequence of
\* characters; TLC cannot index a string, so the table spells each one out).
Chars(s) ==
  CASE s = "QuestionAnswererAgent" ->
         <<"Q","u","e","s","t","i","o","n","A","n","s","w","e","r","e","r","A","g","e","n","t">>
    [] s = "AnswerCheckerAgent" ->
         <<"A","n","s","w","e","r","C","h","e","c","k","e","r","A","g","e","n","t">>
    [] s = "LinkCheckerAgent" ->
         <<"L","i","n","k","C","h","e","c","k","e","r","A","g","e","n","t">>
    [] s = "ManagerAgent" ->
         <<"M","a","n","a","g","e","r","A","g","e","n","t">>
    [] s = " QuestionAnswererAgent" ->
         <<" ","Q","u","e","s","t","i","o","n","A","n","s","w","e","r","e","r","A","g","e","n","t">>
    [] s = " AnswerCheckerAgent" ->
         <<" ","A","n","s","w","e","r","C","h","e","c","k","e","r","A","g","e","n","t">>
    [] s = " LinkCheckerAgent" ->
         <<" ","L","i","n","k","C","h","e","c","k","e","r","A","g","e","n","t">>
    [] s = " ManagerAgent " ->
         <<" ","M","a","n","a","g","e","r","A","g","e","n","t"," ">>
    [] s = "APPROVE" ->
         <<"A","P","P","R","O","V","E">>
    [] s = "Approve" ->
         <<"A","p","p","r","o","v","e">>
    [] s = "approve" ->
         <<"a","p","p","r","o","v","e">>
    [] s = "reject" ->
         <<"r","e","j","e","c","t">>
    [] s = "CONTINUE" ->
         <<"C","O","N","T","I","N","U","E">>
    [] s = "continue" ->
         <<"c","o","n","t","i","n","u","e">>
    [] s = "I APPROVE this" ->
         <<"I"," ","A","P","P","R","O","V","E"," ","t","h","i","s">>
    [] s = "not approved" ->
         <<"n","o","t"," ","a","p","p","r","o","v","e","d">>
    [] s = "ANSWER CORRECT." ->
         <<"A","N","S","W","E","R"," ","C","O","R","R","E","C","T",".">>
    [] s = "ANSWER INCORRECT: outdated" ->
         <<"A","N","S","W","E","R"," ","I","N","C","O","R","R","E","C","T",":"," ","o","u","t","d","a","t","e","d">>
    [] s = "LINKS CORRECT" ->
         <<"L","I","N","K","S"," ","C","O","R","R","E","C","T">>
    [] s = "LINK INCORRECT - http://x/y" ->
         <<"L","I","N","K"," ","I","N","C","O","R","R","E","C","T"," ","-"," ","h","t","t","p",":","/","/","x","/","y">>
    [] s = "answer one" ->
         <<"a","n","s","w","e","r"," ","o","n","e">>
    [] s = "answer two" ->
         <<"a","n","s","w","e","r"," ","t","w","o">>
    [] s = "ANSWER CORRECT" ->
         <<"A","N","S","W","E","R"," ","C","O","R","R","E","C","T">>
    [] s = "ANSWER INCORRECT" ->
         <<"A","N","S","W","E","R"," ","I","N","C","O","R","R","E","C","T">>
    [] s = "LINKS INCORRECT" ->
         <<"L","I","N","K","S"," ","I","N","C","O","R","R","E","C","T">>
    [] s = "LINK INCORRECT - " ->
         <<"L","I","N","K"," ","I","N","C","O","R","R","E","C","T"," ","-"," ">>
    [] s = "timeout" ->
         <<"t","i","m","e","o","u","t">>
    [] s = "no agent" ->
         <<"n","o"," ","a","g","e","n","t">>
    [] s = "Error: " ->
         <<"E","r","r","o","r",":"," ">>
    [] s = "Error occurred: " ->
         <<"E","r","r","o","r"," ","o","c","c","u","r","r","e","d",":"," ">>
    [] s = "Error: timeout" ->
         <<"E","r","r","o","r",":"," ","t","i","m","e","o","u","t">>
    [] s = "Error: no agent" ->
         <<"E","r","r","o","r",":"," ","n","o"," ","a","g","e","n","t">>
    [] s = "Error occurred: timeout" ->
         <<"E","r","r","o","r"," ","o","c","c","u","r","r","e","d",":"," ","t","i","m","e","o","u","t">>
    [] s = "Error occurred: no agent" ->
         <<"E","r","r","o","r"," ","o","c","c","u","r","r","e","d",":"," ","n","o"," ","a","g","e","n","t">>
    [] s = "LINK INCORRECT" ->
         <<"L","I","N","K"," ","I","N","C","O","R","R","E","C","T">>
    [] s = "No URLs found in the text." ->
         <<"N","o"," ","U","R","L","s"," ","f","o","u","n","d"," ","i","n"," ","t","h","e"," ","t","e","x","t",".">>
    [] s = "No URLs to validate." ->
         <<"N","o"," ","U","R","L","s"," ","t","o"," ","v","a","l","i","d","a","t","e",".">>
    [] s = "No valid URLs to check." ->
         <<"N","o"," ","v","a","l","i","d"," ","U","R","L","s"," ","t","o"," ","c","h","e","c","k",".">>
    [] s = "http://" ->
         <<"h","t","t","p",":","/","/">>
    [] s = "https://" ->
         <<"h","t","t","p","s",":","/","/">>
    [] s = "INVALID:" ->
         <<"I","N","V","A","L","I","D",":">>
    [] s = "INVALID: " ->
         <<"I","N","V","A","L","I","D",":"," ">>
    [] s = "VALID: " ->
         <<"V","A","L","I","D",":"," ">>
    [] s = " - " ->
         <<" ","-"," ">>
    [] s = " - Status " ->
         <<" ","-"," ","S","t","a","t","u","s"," ">>
    [] s = "Malformed URL" ->
         <<"M","a","l","f","o","r","m","e","d"," ","U","R","L">>
    [] s = "Invalid IPv6 URL" ->
         <<"I","n","v","a","l","i","d"," ","I","P","v","6"," ","U","R","L">>
    [] s = "HTTP Error: " ->
         <<"H","T","T","P"," ","E","r","r","o","r",":"," ">>
    [] s = "Soft 404 detected: Page appears to be an error page despite 200 status" ->
         <<"S","o","f","t"," ","4","0","4"," ","d","e","t","e","c","t","e","d",":"," ","P","a","g","e"," ","a","p","p","e","a","r","s"," ","t","o"," ","b","e"," ","a","n"," ","e","r","r","o","r"," ","p","a","g","e"," ","d","e","s","p","i","t","e"," ","2","0","0"," ","s","t","a","t","u","s">>
    [] s = "Connection error: Cannot connect to host" ->
         <<"C","o","n","n","e","c","t","i","o","n"," ","e","r","r","o","r",":"," ","C","a","n","n","o","t"," ","c","o","n","n","e","c","t"," ","t","o"," ","h","o","s","t">>
    [] s = "Request error: Too many redirects" ->
         <<"R","e","q","u","e","s","t"," ","e","r","r","o","r",":"," ","T","o","o"," ","m","a","n","y"," ","r","e","d","i","r","e","c","t","s">>
    [] s = "Request timed out" ->
         <<"R","e","q","u","e","s","t"," ","t","i","m","e","d"," ","o","u","t">>
    [] s = "Unexpected error: Session is closed" ->
         <<"U","n","e","x","p","e","c","t","e","d"," ","e","r","r","o","r",":"," ","S","e","s","s","i","o","n"," ","i","s"," ","c","l","o","s","e","d">>
    [] s = "200" ->
         <<"2","0","0">>
    [] s = "301" ->
         <<"3","0","1">>
    [] s = "400" ->
         <<"4","0","0">>
    [] s = "403" ->
         <<"4","0","3">>
    [] s = "404" ->
         <<"4","0","4">>
    [] s = "405" ->
         <<"4","0","5">>
    [] s = "500" ->
         <<"5","0","0">>
    [] s = "http://a" ->
         <<"h","t","t","p",":","/","/","a">>
    [] s = "ftp://" ->
         <<"f","t","p",":","/","/">>
    [] s = "b" ->
         <<"b">>
    [] s = "a.b" ->
         <<"a",".","b">>
    [] s = "http:///c" ->
         <<"h","t","t","p",":","/","/","/","c">>
    [] s = "http://[d" ->
         <<"h","t","t","p",":","/","/","[","d">>
    [] s = "0123456789" ->
         <<"0","1","2","3","4","5","6","7","8","9">>
    [] s = "abcdefghijklmnopqrstuvwxyzABCDEFGHIJKLMNOPQRSTUVWXYZ" ->
         <<"a","b","c","d","e","f","g","h","i","j","k","l","m","n","o","p","q","r","s","t","u","v","w","x","y","z","A","B","C","D","E","F","G","H","I","J","K","L","M","N","O","P","Q","R","S","T","U","V","W","X","Y","Z">>
    [] s = "+-." ->
         <<"+","-",".">>
    [] s = "//" ->
         <<"/","/">>
    [] s = "/?#" ->
         <<"/","?","#">>
    [] s = "VALID: http://a - Status 200" ->
         <<"V","A","L","I","D",":"," ","h","t","t","p",":","/","/","a"," ","-"," ","S","t","a","t","u","s"," ","2","0","0">>
    [] s = "INVALID: http://a - HTTP Error: 404" ->
         <<"I","N","V","A","L","I","D",":"," ","h","t","t","p",":","/","/","a"," ","-"," ","H","T","T","P"," ","E","r","r","o","r",":"," ","4","0","4">>
    [] s = "INVALID: a.b - Malformed URL" ->
         <<"I","N","V","A","L","I","D",":"," ","a",".","b"," ","-"," ","M","a","l","f","o","r","m","e","d"," ","U","R","L">>
    [] s = " INVALID: b - Request timed out" ->
         <<" ","I","N","V","A","L","I","D",":"," ","b"," ","-"," ","R","e","q","u","e","s","t"," ","t","i","m","e","d"," ","o","u","t">>
    [] s = "LINK INCORRECT - http://a" ->
         <<"L","I","N","K"," ","I","N","C","O","R","R","E","C","T"," ","-"," ","h","t","t","p",":","/","/","a">>
    [] s = "HTTP Error: 404" ->
         <<"H","T","T","P"," ","E","r","r","o","r",":"," ","4","0","4">>
    [] s = "HTTP Error: 500" ->
         <<"H","T","T","P"," ","E","r","r","o","r",":"," ","5","0","0">>
    [] s = "INVALID: http://a/INVALID: - HTTP Error: 404" ->
         <<"I","N","V","A","L","I","D",":"," ","h","t","t","p",":","/","/","a","/","I","N","V","A","L","I","D",":"," ","-"," ","H","T","T","P"," ","E","r","r","o","r",":"," ","4","0","4">>
    [] s = "INVALID: a - b - Malformed URL" ->
         <<"I","N","V","A","L","I","D",":"," ","a"," ","-"," ","b"," ","-"," ","M","a","l","f","o","r","m","e","d"," ","U","R","L">>
    [] s = "http://a/INVALID:" ->
         <<"h","t","t","p",":","/","/","a","/","I","N","V","A","L","I","D",":">>
    [] s = "a - b" ->
         <<"a"," ","-"," ","b">>
    [] s = "Error during web search:" ->
         <<"E","r","r","o","r"," ","d","u","r","i","n","g"," ","w","e","b"," ","s","e","a","r","c","h",":">>
    [] s = "UnboundLocalError" ->
         <<"U","n","b","o","u","n","d","L","o","c","a","l","E","r","r","o","r">>
    [] OTHER -> <<>>

None == "<None>"

UpperLetters ==
  <<"A","B","C","D","E","F","G","H","I","J","K","L","M",
    "N","O","P","Q","R","S","T","U","V","W","X","Y","Z">>

LowerLetters ==
  <<"a","b","c","d","e","f","g","h","i","j","k","l","m",
    "n","o","p","q","r","s","t","u","v","w","x","y","z">>

Whitespace == {" ", "\n", "\t"}

\* str.upper(), character by character
UpperChar(c) ==
  IF \E i \in 1..26 : LowerLetters[i] = c
  THEN UpperLetters[CHOOSE i \in 1..26 : LowerLetters[i] = c]
  ELSE c

Upper(s) == [i \in 1..Len(s) |-> UpperChar(s[i])]

\* str.lower(), character by character
LowerChar(c) ==
  IF \E i \in 1..26 : UpperLetters[i] = c
  THEN LowerLetters[CHOOSE i \in 1..26 : UpperLetters[i] = c]
  ELSE c

Lower(s) == [i \in 1..Len(s) |-> LowerChar(s[i])]

\* p in s
Contains(s, p) ==
  \E i \in 0..(Len(s) - Len(p)) : SubSeq(s, i + 1, i + Len(p)) = p

\* s.startswith(p)
StartsWith(s, p) ==
  /\ Len(p) <= Len(s)
  /\ SubSeq(s, 1, Len(p)) = p

\* str.strip()
Strip(s) ==
  LET keep == {i \in 1..Len(s) : s[i] \notin Whitespace}
  IN  IF keep = {} THEN <<>>
      ELSE SubSeq(s, CHOOSE i \in keep : \A j \in keep : i <= j,
                     CHOOSE i \in keep : \A j \in keep : j <= i)

\* f"{prefix}{e}": the text spelled by the characters of prefix followed by those of e
Format(prefix, e) ==
  CHOOSE s \in Strings : Chars(s) = Chars(prefix) \o Chars(e)

(***************************************************************************)
(* The agents of the chat and their output contracts (update_prompts).     *)
(***************************************************************************)
QuestionAnswererAgent == "QuestionAnswererAgent"
AnswerCheckerAgent == "AnswerCheckerAgent"
LinkCheckerAgent == "LinkCheckerAgent"
ManagerAgent == "ManagerAgent"
User == "user"
System == "System"

\* agents=[...] of the AgentGroupChat
ChatAgents ==
  { QuestionAnswererAgent, AnswerCheckerAgent, LinkCheckerAgent, ManagerAgent }

Message(name, text) == [name |-> name, content |-> text]

LastMessage(history) == history[Len(history)]

\* The content of the latest message of agent `name` in the chat; "" when there is none.
LatestOf(history, name) ==
  LET at == {i \in 1..Len(history) : history[i].name = name}
  IN  IF at = {} THEN ""
      ELSE history[CHOOSE i \in at : \A j \in at : j <= i].content

\* answer_checker_prompt: "Your responses always start with either the words
\* ANSWER CORRECT or ANSWER INCORRECT"
AnswerCheckerReplies == { "ANSWER CORRECT.", "ANSWER INCORRECT: outdated" }

\* link_checker_prompt: "Return the EXACT result of
\* link_checker.summarize_validation_results", which is LINKS CORRECT or one
\* "LINK INCORRECT - <url>" line per invalid link
LinkCheckerReplies == { "LINKS CORRECT", "LINK INCORRECT - http://x/y" }

\* manager_prompt, rules 1 to 3: APPROVE only when the answer checker says
\* ANSWER CORRECT and the link checker says LINKS CORRECT, otherwise reject
ManagerDecision(history) ==
  IF /\ StartsWith(Chars(LatestOf(history, AnswerCheckerAgent)), Chars("ANSWER CORRECT"))
     /\ StartsWith(Chars(LatestOf(history, LinkCheckerAgent)), Chars("LINKS CORRECT"))
  THEN "APPROVE"
  ELSE "reject"

\* manager_prompt: "You do not output anything other than reject or APPROVE"; a
\* Manager that does not obey rules 1 to 3 answers either word
ManagerReplies(history, obedient) ==
  IF obedient THEN { ManagerDecision(history) } ELSE { "APPROVE", "reject" }

\* What the selected agent may answer to the chat so far
AgentReplies(agent, history, e) ==
  CASE agent = QuestionAnswererAgent -> e.answers
    [] agent = AnswerCheckerAgent -> e.answer_verdicts
    [] agent = LinkCheckerAgent -> e.link_verdicts
    [] agent = ManagerAgent -> ManagerReplies(history, e.obedient)

(***************************************************************************)
(* The selection strategy (KernelFunctionSelectionStrategy).               *)
(***************************************************************************)
\* Mutant of selection_function: the AnswerChecker's verdict is matched on the word
\* CORRECT anywhere, so that ANSWER INCORRECT passes the answer on to the LinkChecker
selection_function_AnyCorrect(name, text) ==
  CASE name = User -> { QuestionAnswererAgent }
    [] name = ManagerAgent /\ Contains(Chars(text), Chars("reject")) ->
         { QuestionAnswererAgent }
    [] name = QuestionAnswererAgent -> { AnswerCheckerAgent }
    [] name = AnswerCheckerAgent /\ Contains(Chars(text), Chars("CORRECT")) ->
         { LinkCheckerAgent }
    [] name = AnswerCheckerAgent -> { QuestionAnswererAgent }
    [] name = LinkCheckerAgent /\ StartsWith(Chars(text), Chars("LINKS INCORRECT")) ->
         { QuestionAnswererAgent }
    [] name = LinkCheckerAgent /\ StartsWith(Chars(text), Chars("LINKS CORRECT")) ->
         { ManagerAgent }
    [] OTHER -> ChatAgents

\* The rules of the selection prompt, applied to the latest message: the agents the
\* function may name. A message no rule covers leaves the choice open.
selection_function(name, text) ==
  CASE name = User -> { QuestionAnswererAgent }
    [] name = ManagerAgent /\ Contains(Chars(text), Chars("reject")) ->
         { QuestionAnswererAgent }
    [] name = QuestionAnswererAgent -> { AnswerCheckerAgent }
    [] name = AnswerCheckerAgent /\ StartsWith(Chars(text), Chars("ANSWER INCORRECT")) ->
         { QuestionAnswererAgent }
    [] name = AnswerCheckerAgent /\ StartsWith(Chars(text), Chars("ANSWER CORRECT")) ->
         { LinkCheckerAgent }
    [] name = LinkCheckerAgent /\ StartsWith(Chars(text), Chars("LINKS INCORRECT")) ->
         { QuestionAnswererAgent }
    [] name = LinkCheckerAgent /\ StartsWith(Chars(text), Chars("LINKS CORRECT")) ->
         { ManagerAgent }
    [] OTHER -> ChatAgents

\* The ways the function may write a name: "Return only the name of the agent",
\* possibly with surrounding blanks
AgentNameTexts ==
  { "QuestionAnswererAgent", "AnswerCheckerAgent", "LinkCheckerAgent", "ManagerAgent",
    " QuestionAnswererAgent", " AnswerCheckerAgent", " LinkCheckerAgent",
    " ManagerAgent " }

\* The replies of the selection function to the latest message
SelectionReplies(name, text) ==
  LET named == selection_function(name, text)
  IN  { s \in AgentNameTexts : \E a \in named : Strip(Chars(s)) = Chars(a) }

\* result_parser of the selection strategy
selection_result_parser(value) ==
  IF value # None THEN Strip(Chars(value)) ELSE Chars("QuestionAnswererAgent")

\* The agents of the chat that bear the parsed name
AgentsNamed(chars) == { a \in ChatAgents : Chars(a) = chars }

\* initial_agent of the selection strategy
initial_agent == QuestionAnswererAgent

(***************************************************************************)
(* The termination strategy (KernelFunctionTerminationStrategy).           *)
(***************************************************************************)
\* Mutant of termination_agents: the strategy is bound to the checkers
termination_agents_Checkers == { AnswerCheckerAgent, LinkCheckerAgent }

\* agents=[manager_agent]: the strategy is evaluated for these agents only
termination_agents == { ManagerAgent }

\* The termination prompt: APPROVE when the ManagerAgent has said "APPROVE",
\* otherwise CONTINUE, in whatever letter case the function answers. A message
\* with the word in another letter case is covered by neither branch.
termination_function(text) ==
  IF Contains(Chars(text), Chars("APPROVE"))
  THEN { "APPROVE", "approve" }
  ELSE IF Contains(Upper(Chars(text)), Chars("APPROVE"))
       THEN { "APPROVE", "approve", "CONTINUE", "continue" }
       ELSE { "CONTINUE", "continue" }

\* Mutant of termination_result_parser: the reply is compared case-sensitively
termination_result_parser_CaseSensitive(value) ==
  Contains(Chars(value), Chars("APPROVE"))

\* result_parser of the termination strategy
termination_result_parser(value) ==
  Contains(Upper(Chars(value)), Chars("APPROVE"))

\* The replies of the termination function to a message of `agent`: the function
\* is not invoked for an agent outside termination_agents
TerminationReplies(agent, text) ==
  IF agent \in termination_agents THEN termination_function(text) ELSE { None }

\* TerminationStrategy.should_terminate for a message of `agent`
should_terminate(agent, reply) ==
  /\ agent \in termination_agents
  /\ termination_result_parser(reply)

(***************************************************************************)
(* Environments: the questions asked and what the agents may answer.       *)
(***************************************************************************)
\* Every verdict is free; the Manager obeys its rules or not.
FreeEnvs ==
  { [ questions |-> { "q1" },
      answers |-> { "answer one", "answer two" },
      answer_verdicts |-> AnswerCheckerReplies,
      link_verdicts |-> LinkCheckerReplies,
      obedient |-> b,
      max_calls |-> MaxCalls ] : b \in BOOLEAN }

\* Every verdict is free and the Manager obeys its rules or not; the
\* QuestionAnswerer always gives the same answer.
VerdictEnvs ==
  { [ questions |-> { "q1" },
      answers |-> { "answer one" },
      answer_verdicts |-> AnswerCheckerReplies,
      link_verdicts |-> LinkCheckerReplies,
      obedient |-> b,
      max_calls |-> MaxCalls ] : b \in BOOLEAN }

\* Many calls on one object: every link is alive and the Manager obeys its rules.
HistoryEnv ==
  [ questions |-> { "q1", "q2" },
    answers |-> { "answer one" },
    answer_verdicts |-> AnswerCheckerReplies,
    link_verdicts |-> { "LINKS CORRECT" },
    obedient |-> TRUE,
    max_calls |-> MaxHistoryCalls ]

\* The texts of the exceptions a turn of the loop may raise
ExceptionTexts == { "timeout", "no agent" }

NoResult == [returned |-> FALSE, inner_monologue |-> <<>>, final_answer |-> ""]

NoContent == [name |-> "", content |-> ""]

(***************************************************************************)
(* MultiAgent.__init__                                                     *)
(***************************************************************************)
InitObject ==
  /\ conversation_history = <<>>
  /\ calls = 0
  /\ pc = "idle"
  /\ question = ""
  /\ persona_history = <<>>
  /\ chat_history = <<>>
  /\ iterations = 0
  /\ has_selected = FALSE
  /\ selected = ""
  /\ is_complete = FALSE
  /\ content = NoContent
  /\ agent_interactions = <<>>
  /\ final_answer = ""
  /\ result = NoResult
  /\ outcome = "none"
  /\ raised = ""
  /\ raised_after = 0
  /\ history0 = <<>>
  /\ completed = <<>>
  /\ observed = <<>>

GateIdle ==
  /\ gate_agent = ""
  /\ gate_message = ""
  /\ gate_reply = ""
  /\ gate_out = "none"

PairIdle ==
  /\ pair_history = << <<>>, <<>> >>
  /\ pair_next = << "", "" >>

NoSearch == [kind |-> "none", text |-> ""]

NoParams == [q |-> "", sites |-> <<>>, count |-> 0, sortby |-> ""]

SearchIdle ==
  /\ search_input = [key |-> None, query |-> "", up_to_date |-> FALSE,
                     count_per_context |-> 0, session |-> "absent"]
  /\ search_pc = "idle"
  /\ search_params = NoParams
  /\ search_requests = 0
  /\ search_result = NoSearch

\* A text that has not been given or computed yet
Unset == << "<unset>" >>

NoNet == [heads |-> {}, gets |-> {}, soft_pages |-> FALSE]

LinksIdle ==
  /\ link_net = NoNet
  /\ link_pc = "idle"
  /\ link_text = Unset
  /\ link_urls = Unset
  /\ link_url_list = <<>>
  /\ link_lines = <<>>
  /\ link_tasks = <<>>
  /\ link_requests = 0
  /\ link_output = Unset
  /\ link_summary = Unset
  /\ link_again = Unset

ToolsIdle == PairIdle /\ SearchIdle /\ LinksIdle

Init ==
  /\ env \in FreeEnvs
  /\ InitObject
  /\ GateIdle
  /\ ToolsIdle

InitVerdicts ==
  /\ env \in VerdictEnvs
  /\ InitObject
  /\ GateIdle
  /\ ToolsIdle

InitHistory ==
  /\ env = HistoryEnv
  /\ InitObject
  /\ GateIdle
  /\ ToolsIdle

(***************************************************************************)
(* MultiAgent.ask_question                                                 *)
(***************************************************************************)
\* Mutant of PersonaWindow: only the latest exchange is embedded
PersonaWindowLatest(history) ==
  IF Len(history) > 1 THEN SubSeq(history, Len(history), Len(history)) ELSE history

\* self.conversation_history[-10:] of create_agents_and_chat
PersonaWindow(history) ==
  IF Len(history) > persona_window
  THEN SubSeq(history, Len(history) - persona_window + 1, Len(history))
  ELSE history

\* Lines 318 to 326: the agents and the chat are created, the question is added to
\* the chat, the locals are initialised.
AskQuestion ==
  /\ pc = "idle"
  /\ calls < env.max_calls
  /\ \E q \in env.questions :
       /\ question' = q
       /\ chat_history' = << Message(User, q) >>
  /\ calls' = calls + 1
  /\ persona_history' = PersonaWindow(conversation_history)
  /\ history0' = conversation_history
  /\ iterations' = 0
  /\ has_selected' = FALSE
  /\ selected' = ""
  /\ is_complete' = FALSE
  /\ content' = NoContent
  /\ agent_interactions' = <<>>
  /\ final_answer' = ""
  /\ result' = NoResult
  /\ outcome' = "none"
  /\ raised' = ""
  /\ raised_after' = 0
  /\ observed' = <<>>
  /\ pc' = "loop"
  /\ UNCHANGED << env, conversation_history, completed >>

\* Mutant of AskQuestionRaises: the exception is turned into the error result
AskQuestionRaisesCaught ==
  /\ pc = "idle"
  /\ calls < env.max_calls
  /\ calls' = calls + 1
  /\ history0' = conversation_history
  /\ \E e \in ExceptionTexts :
       /\ raised' = e
       /\ result' = [returned |-> TRUE,
                     inner_monologue |->
                       << [agent |-> System, content |-> Format("Error: ", e)] >>,
                     final_answer |-> Format("Error occurred: ", e)]
  /\ raised_after' = 0
  /\ outcome' = "raised"
  /\ observed' = <<>>
  /\ UNCHANGED << env, conversation_history, pc, question, persona_history,
                  chat_history, iterations, has_selected, selected, is_complete,
                  content, agent_interactions, final_answer, completed >>

\* Lines 318 to 322: create_agents_and_chat or chat.add_chat_message raises; the
\* statements stand before the try block of line 328, so the exception leaves
\* ask_question and nothing is returned.
AskQuestionRaises ==
  /\ pc = "idle"
  /\ calls < env.max_calls
  /\ calls' = calls + 1
  /\ history0' = conversation_history
  /\ \E e \in ExceptionTexts : raised' = e
  /\ result' = NoResult
  /\ raised_after' = 0
  /\ outcome' = "raised"
  /\ observed' = <<>>
  /\ UNCHANGED << env, conversation_history, pc, question, persona_history,
                  chat_history, iterations, has_selected, selected, is_complete,
                  content, agent_interactions, final_answer, completed >>

\* Mutant of CanIterate: the range is one turn too long
CanIterateOffByOne(n, complete) == ~complete /\ n <= maximum_iterations

\* for _ in range(maximum_iterations): another turn starts after n turns, unless
\* the chat is complete
CanIterate(n, complete) == ~complete /\ n < maximum_iterations

\* Mutant of LoopEnded: the loop ends on approval only
LoopEndedOnApprovalOnly(n, complete) == complete

\* The loop of chat.invoke() is over: the chat is complete (break) or the range is
\* exhausted
LoopEnded(n, complete) == complete \/ n >= maximum_iterations

\* SelectionStrategy.next: the initial agent first, then the selection function on
\* the latest message, its reply parsed and resolved to an agent of the chat.
SelectAgent ==
  /\ pc = "loop"
  /\ CanIterate(iterations, is_complete)
  /\ IF ~has_selected
     THEN selected' = initial_agent
     ELSE \E reply \in SelectionReplies(LastMessage(chat_history).name,
                                        LastMessage(chat_history).content) :
            selected' \in AgentsNamed(selection_result_parser(reply))
  /\ has_selected' = TRUE
  /\ iterations' = iterations + 1
  /\ pc' = "invoke"
  /\ UNCHANGED << env, conversation_history, calls, question, persona_history,
                  chat_history, is_complete, content, agent_interactions,
                  final_answer, result, outcome, raised, raised_after, history0, completed,
                  observed >>

\* The selected agent produces one message, named after it, which is appended to the
\* chat; the termination strategy is evaluated; the message is yielded.
InvokeAgent ==
  /\ pc = "invoke"
  /\ \E text \in AgentReplies(selected, chat_history, env) :
       /\ chat_history' = Append(chat_history, Message(selected, text))
       /\ content' = Message(selected, text)
       /\ \E reply \in TerminationReplies(selected, text) :
            is_complete' = should_terminate(selected, reply)
  /\ pc' = "process"
  /\ UNCHANGED << env, conversation_history, calls, question, persona_history,
                  iterations, has_selected, selected, agent_interactions,
                  final_answer, result, outcome, raised, raised_after, history0, completed,
                  observed >>

\* The content of the latest QuestionAnswererAgent entry of the log ("" when none):
\* for interaction in reversed(agent_interactions)
LatestAnswer(log) ==
  LET at == {i \in 1..Len(log) : log[i].agent = QuestionAnswererAgent}
  IN  IF at = {} THEN ""
      ELSE log[CHOOSE i \in at : \A j \in at : j <= i].content

\* Mutant of FinalAnswerAfter: every agent's message becomes the final answer
FinalAnswerAfterAnyAgent(log, agent_name, response_text, current) == response_text

\* Lines 349 to 358: final_answer after the message of agent_name is logged
FinalAnswerAfter(log, agent_name, response_text, current) ==
  LET answered == IF agent_name = QuestionAnswererAgent THEN response_text ELSE current
  IN  IF /\ agent_name = ManagerAgent
         /\ Contains(Lower(Chars(response_text)), Chars("APPROVE"))
         /\ \E i \in 1..Len(log) : log[i].agent = QuestionAnswererAgent
      THEN LatestAnswer(log)
      ELSE answered

\* Mutant of ObservedAfter: the callback is invoked for the answers only
ObservedAfterAnswersOnly(seen, agent_name, response_text) ==
  IF agent_name = QuestionAnswererAgent
  THEN Append(seen, [agent |-> agent_name, content |-> response_text])
  ELSE seen

\* Lines 344 to 345: await ui_callback(agent_name, response_text); the application
\* always passes its callback (rfx_multiagent_streamlit.py line 202)
ObservedAfter(seen, agent_name, response_text) ==
  Append(seen, [agent |-> agent_name, content |-> response_text])

\* Lines 330 to 358: the body of the loop for the yielded message
ProcessContent ==
  /\ pc = "process"
  /\ IF content.name = ""
     THEN UNCHANGED << agent_interactions, final_answer, observed >>
     ELSE LET log == Append(agent_interactions,
                            [agent |-> content.name, content |-> content.content])
          IN  /\ agent_interactions' = log
              /\ observed' = ObservedAfter(observed, content.name, content.content)
              /\ final_answer' =
                   FinalAnswerAfter(log, content.name, content.content, final_answer)
  /\ pc' = "loop"
  /\ UNCHANGED << env, conversation_history, calls, question, persona_history,
                  chat_history, iterations, has_selected, selected, is_complete,
                  content, result, outcome, raised, raised_after, history0,
                  completed >>

\* Mutant of HistoryAfter: the history is cut to its first 5 exchanges
HistoryAfterKeepingOldest(history, q, answer) ==
  LET appended == Append(history, [question |-> q, answer |-> answer])
  IN  IF Len(appended) > history_limit
      THEN SubSeq(appended, 1, history_limit)
      ELSE appended

\* Lines 361 to 365: the exchange is appended and the history cut to its last 5
HistoryAfter(history, q, answer) ==
  LET appended == Append(history, [question |-> q, answer |-> answer])
  IN  IF Len(appended) > history_limit
      THEN SubSeq(appended, Len(appended) - history_limit + 1, Len(appended))
      ELSE appended

\* ask_question returns: the chat, its agents and the locals of the call are gone
Return ==
  /\ pc' = "idle"
  /\ question' = ""
  /\ persona_history' = <<>>
  /\ chat_history' = <<>>
  /\ iterations' = 0
  /\ has_selected' = FALSE
  /\ selected' = ""
  /\ is_complete' = FALSE
  /\ content' = NoContent
  /\ agent_interactions' = <<>>
  /\ final_answer' = ""

\* Mutant of Complete: only an approved run is recorded in the history
CompleteRecordingApproved ==
  /\ pc = "loop"
  /\ LoopEnded(iterations, is_complete)
  /\ conversation_history' =
       IF is_complete
       THEN HistoryAfter(conversation_history, question, final_answer)
       ELSE conversation_history
  /\ completed' = Append(completed, [question |-> question, answer |-> final_answer])
  /\ result' = [returned |-> TRUE,
                inner_monologue |-> agent_interactions,
                final_answer |-> final_answer]
  /\ outcome' = IF is_complete THEN "approved" ELSE "capped"
  /\ Return
  /\ UNCHANGED << env, calls, raised, raised_after, history0, observed >>

\* Lines 360 to 370: the loop has ended without exception
Complete ==
  /\ pc = "loop"
  /\ LoopEnded(iterations, is_complete)
  /\ conversation_history' = HistoryAfter(conversation_history, question, final_answer)
  /\ completed' = Append(completed, [question |-> question, answer |-> final_answer])
  /\ result' = [returned |-> TRUE,
                inner_monologue |-> agent_interactions,
                final_answer |-> final_answer]
  /\ outcome' = IF is_complete THEN "approved" ELSE "capped"
  /\ Return
  /\ UNCHANGED << env, calls, raised, raised_after, history0, observed >>

\* Mutant of ErrorResult: the handler returns the log so far followed by the entry
ErrorResultKeepingLog(e, log) ==
  [returned |-> TRUE,
   inner_monologue |->
     Append(log, [agent |-> System, content |-> Format("Error: ", e)]),
   final_answer |-> Format("Error occurred: ", e)]

\* Lines 372 to 377: what the handler returns for the exception text e
ErrorResult(e, log) ==
  [returned |-> TRUE,
   inner_monologue |-> << [agent |-> System, content |-> Format("Error: ", e)] >>,
   final_answer |-> Format("Error occurred: ", e)]

\* Mutant of HandleException: the handler records the failed exchange in the history
HandleExceptionRecording ==
  /\ \/ pc = "invoke"
     \/ pc = "process"
     \/ pc = "loop" /\ ~is_complete /\ iterations < maximum_iterations
  /\ \E e \in ExceptionTexts :
       /\ raised' = e
       /\ result' = [returned |-> TRUE,
                     inner_monologue |->
                       << [agent |-> System, content |-> Format("Error: ", e)] >>,
                     final_answer |-> Format("Error occurred: ", e)]
       /\ conversation_history' =
            Append(conversation_history,
                   [question |-> question, answer |-> Format("Error occurred: ", e)])
  /\ raised_after' = Len(agent_interactions)
  /\ outcome' = "error"
  /\ pc' = "idle"
  /\ question' = ""
  /\ persona_history' = <<>>
  /\ chat_history' = <<>>
  /\ iterations' = 0
  /\ has_selected' = FALSE
  /\ selected' = ""
  /\ is_complete' = FALSE
  /\ content' = NoContent
  /\ agent_interactions' = <<>>
  /\ final_answer' = ""
  /\ observed' = <<>>
  /\ UNCHANGED << env, calls, history0, completed >>

\* An exception is raised inside the try block by the selection, the agent's turn or
\* the termination function, and caught by the handler.
HandleException ==
  /\ \/ pc = "invoke"
     \/ pc = "process"
     \/ pc = "loop" /\ CanIterate(iterations, is_complete)
  /\ \E e \in ExceptionTexts :
       /\ raised' = e
       /\ result' = ErrorResult(e, agent_interactions)
  /\ raised_after' = Len(agent_interactions)
  /\ outcome' = "error"
  /\ observed' = <<>>
  /\ Return
  /\ UNCHANGED << env, conversation_history, calls, history0, completed >>

\* Mutant of CallbackRaises: the handler records the exchange in the history
CallbackRaisesRecording ==
  /\ pc = "process"
  /\ content.name # ""
  /\ \E e \in ExceptionTexts :
       /\ raised' = e
       /\ result' = ErrorResult(e, agent_interactions)
  /\ conversation_history' =
       HistoryAfter(conversation_history, question,
                    FinalAnswerAfter(agent_interactions, content.name, content.content,
                                     final_answer))
  /\ raised_after' = Len(agent_interactions) + 1
  /\ outcome' = "error"
  /\ observed' = ObservedAfter(observed, content.name, content.content)
  /\ Return
  /\ UNCHANGED << env, calls, history0, completed >>

\* Lines 337 to 345 and 372 to 377: the message has been logged (line 338), the
\* callback is invoked with it and raises; the handler catches the exception. The
\* invocations of the callback, the failing one last, stay on record.
CallbackRaises ==
  /\ pc = "process"
  /\ content.name # ""
  /\ \E e \in ExceptionTexts :
       /\ raised' = e
       /\ result' = ErrorResult(e, Append(agent_interactions,
                                         [agent |-> content.name,
                                          content |-> content.content]))
  /\ raised_after' = Len(agent_interactions) + 1
  /\ outcome' = "error"
  /\ observed' = ObservedAfter(observed, content.name, content.content)
  /\ Return
  /\ UNCHANGED << env, conversation_history, calls, history0, completed >>

Next ==
  \/ AskQuestion /\ UNCHANGED << gateVars, toolVars >>
  \/ SelectAgent /\ UNCHANGED << gateVars, toolVars >>
  \/ InvokeAgent /\ UNCHANGED << gateVars, toolVars >>
  \/ ProcessContent /\ UNCHANGED << gateVars, toolVars >>
  \/ Complete /\ UNCHANGED << gateVars, toolVars >>
  \/ HandleException /\ UNCHANGED << gateVars, toolVars >>
  \/ CallbackRaises /\ UNCHANGED << gateVars, toolVars >>
  \/ AskQuestionRaises /\ UNCHANGED << gateVars, toolVars >>

Spec == Init /\ [][Next]_vars

SpecHistory == InitHistory /\ [][Next]_vars

\* A step of the call in progress that is not an exception
Turn ==
  \/ SelectAgent /\ UNCHANGED << gateVars, toolVars >>
  \/ InvokeAgent /\ UNCHANGED << gateVars, toolVars >>
  \/ ProcessContent /\ UNCHANGED << gateVars, toolVars >>
  \/ Complete /\ UNCHANGED << gateVars, toolVars >>

\* Every agent turn, function call and tool call returns: the call in progress
\* keeps taking steps.
SpecFair == InitVerdicts /\ [][Next]_vars /\ WF_vars(Turn)

(***************************************************************************)
(* The termination gate on its own: should_terminate for any agent and     *)
(* any latest message.                                                     *)
(***************************************************************************)
GateMessages ==
  { "APPROVE", "Approve", "approve", "reject", "I APPROVE this", "not approved",
    "ANSWER CORRECT.", "ANSWER INCORRECT: outdated", "LINKS CORRECT",
    "LINK INCORRECT - http://x/y", "answer one", "answer two", "CONTINUE",
    "continue" }

InitGate ==
  /\ env = HistoryEnv
  /\ InitObject
  /\ gate_agent \in ChatAgents
  /\ gate_message \in GateMessages
  /\ gate_reply = ""
  /\ gate_out = "none"
  /\ ToolsIdle

EvaluateGate ==
  /\ gate_out = "none"
  /\ \E reply \in TerminationReplies(gate_agent, gate_message) :
       /\ gate_reply' = reply
       /\ gate_out' = IF should_terminate(gate_agent, reply) THEN "stop" ELSE "continue"
  /\ UNCHANGED << gate_agent, gate_message >>
  /\ UNCHANGED << runVars, toolVars >>

NextGate == EvaluateGate

SpecGate == InitGate /\ [][NextGate]_vars

(***************************************************************************)
(* The selection strategy on its own, in two chats stepped side by side.   *)
(***************************************************************************)
\* The latest messages the selection function is asked about
PairMessages ==
  { Message(User, "q1"),
    Message(QuestionAnswererAgent, "answer one"),
    Message(QuestionAnswererAgent, "answer two"),
    Message(AnswerCheckerAgent, "ANSWER CORRECT."),
    Message(AnswerCheckerAgent, "ANSWER INCORRECT"),
    Message(AnswerCheckerAgent, "ANSWER INCORRECT: outdated"),
    Message(LinkCheckerAgent, "LINKS CORRECT"),
    Message(LinkCheckerAgent, "LINKS INCORRECT"),
    Message(LinkCheckerAgent, "LINK INCORRECT - http://x/y"),
    Message(ManagerAgent, "reject"),
    Message(ManagerAgent, "not approved") }

\* The messages that came before the latest one
EarlierMessages ==
  { Message(User, "q1"), Message(QuestionAnswererAgent, "answer one") }

\* The chats: up to MaxEarlier earlier messages, then the latest message
PairHistories ==
  { Append(earlier, m) :
      earlier \in UNION { [1..n -> EarlierMessages] : n \in 0..MaxEarlier },
      m \in PairMessages }

InitPair ==
  /\ env = HistoryEnv
  /\ InitObject
  /\ GateIdle
  /\ pair_history \in PairHistories \X PairHistories
  /\ pair_next = << "", "" >>
  /\ SearchIdle
  /\ LinksIdle

\* SelectionStrategy.next in chat k: the selection function is asked about the
\* latest message of the chat (history_variable_name="lastmessage")
SelectNext(k) ==
  /\ pair_next[k] = ""
  /\ \E reply \in SelectionReplies(LastMessage(pair_history[k]).name,
                                   LastMessage(pair_history[k]).content) :
       \E a \in AgentsNamed(selection_result_parser(reply)) :
         pair_next' = [pair_next EXCEPT ![k] = a]
  /\ UNCHANGED pair_history
  /\ UNCHANGED << runVars, gateVars, searchVars, linkVars >>

NextPair == \E k \in {1, 2} : SelectNext(k)

SpecPair == InitPair /\ [][NextPair]_vars

(***************************************************************************)
(* WebSearchPlugin.search_web (src/helper/web_search.py).                  *)
(***************************************************************************)
\* Line 25
UnavailableMessage ==
  "Web search is currently unavailable because no Bing Search API key was provided."

\* Lines 31 to 36: the contexts of url_mapping and their sites
url_mapping ==
  [c \in {"Azure AI", "Fabric", "Copilot Studio", "M365 Copilot"} |->
     CASE c = "Azure AI" -> "learn.microsoft.com/en-us/azure"
       [] c = "Fabric" -> "learn.microsoft.com/en-us/fabric/"
       [] c = "Copilot Studio" -> "learn.microsoft.com/en-us/microsoft-copilot-studio/"
       [] c = "M365 Copilot" -> "learn.microsoft.com/en-us/copilot/microsoft-365/"]

\* What st.session_state holds for "selected_contexts": nothing ("absent"), a list
\* of contexts, or the lookup fails ("raises")
SessionStates ==
  { "absent", "raises", <<>>, <<"Azure AI">>, <<"Fabric", "Azure AI">>, <<"Legal">> }

\* The values of the environment variable BING_SEARCH_API_KEY: unset, empty, a key
ApiKeys == { None, "", "key-1" }

\* The calls of search_web
SearchInputs ==
  [key : ApiKeys, query : {"azure openai quota", "fabric pricing"},
   up_to_date : BOOLEAN, count_per_context : {1, 10}, session : SessionStates]

\* The answers of the search provider to a request: a connection error, an HTTP
\* error status, a body that is not JSON, a JSON body without results, a result
\* without its url, one well-formed result
SearchResponses ==
  { "connection error", "http 401", "bad json", "no results", "no url", "one result" }

\* Mutant of has_bing_api_key: an empty key counts as a key
has_bing_api_key_NotNone(bing_api_key) == bing_api_key # None

\* Line 22
has_bing_api_key(bing_api_key) == bing_api_key # None /\ bing_api_key # ""

InitSearch ==
  /\ env = HistoryEnv
  /\ InitObject
  /\ GateIdle
  /\ PairIdle
  /\ LinksIdle
  /\ search_input \in SearchInputs
  /\ search_pc = "start"
  /\ search_params = NoParams
  /\ search_requests = 0
  /\ search_result = NoSearch

\* Lines 21 to 25: without a key the fixed message is returned
SearchCheckKey ==
  /\ search_pc = "start"
  /\ IF ~has_bing_api_key(search_input.key)
     THEN /\ search_result' = [kind |-> "returned", text |-> UnavailableMessage]
          /\ search_pc' = "done"
     ELSE /\ search_pc' = "build"
          /\ UNCHANGED search_result
  /\ UNCHANGED << search_input, search_params, search_requests >>
  /\ UNCHANGED << runVars, gateVars, pairVars, linkVars >>

\* selected_contexts after line 39
SelectedContexts(session) == IF session = "absent" THEN <<"Azure AI">> ELSE session

\* Line 42: the sites of the selected contexts that url_mapping knows
RestrictedSites(contexts) ==
  LET known == {i \in 1..Len(contexts) : contexts[i] \in DOMAIN url_mapping}
      nth[k \in 0..Len(contexts)] ==
        IF k = 0 THEN <<>>
        ELSE IF k \in known THEN Append(nth[k - 1], url_mapping[contexts[k]])
             ELSE nth[k - 1]
  IN  nth[Len(contexts)]

\* Lines 29 to 61: the query is scoped to the selected sites and the parameters of
\* the request are built. A failing lookup of the session state is logged (line
\* 52) and leaves selected_contexts unbound, so that line 56 raises.
SearchBuildQuery ==
  /\ search_pc = "build"
  /\ IF search_input.session = "raises"
     THEN /\ search_result' = [kind |-> "raised", text |-> "UnboundLocalError"]
          /\ search_pc' = "done"
          /\ UNCHANGED search_params
     ELSE LET contexts == SelectedContexts(search_input.session)
              context_count == IF Len(contexts) > 0 THEN Len(contexts) ELSE 1
          IN  /\ search_params' =
                   [q |-> search_input.query,
                    sites |-> RestrictedSites(contexts),
                    count |-> context_count * search_input.count_per_context,
                    sortby |-> IF search_input.up_to_date THEN "Date" ELSE ""]
              /\ search_pc' = "send"
              /\ UNCHANGED search_result
  /\ UNCHANGED << search_input, search_requests >>
  /\ UNCHANGED << runVars, gateVars, pairVars, linkVars >>

\* Lines 66 to 86: what the call returns for the provider's answer
SearchOutput(response) ==
  CASE response = "connection error" ->
         "Error during web search: Cannot connect to host"
    [] response = "http 401" -> "Error during web search: 401"
    [] response = "bad json" -> "Error during web search: Expecting value"
    [] response = "no url" -> "Error during web search: 'url'"
    [] response = "no results" -> ""
    [] response = "one result" ->
         "1. content: quota, source_title: Azure, source_url: https://x/y"

\* Lines 63 to 86: the request is sent and its answer formatted; every exception
\* is returned as text
SearchSend ==
  /\ search_pc = "send"
  /\ search_requests' = search_requests + 1
  /\ \E response \in SearchResponses :
       search_result' = [kind |-> "returned", text |-> SearchOutput(response)]
  /\ search_pc' = "done"
  /\ UNCHANGED << search_input, search_params >>
  /\ UNCHANGED << runVars, gateVars, pairVars, linkVars >>

NextSearch ==
  \/ SearchCheckKey
  \/ SearchBuildQuery
  \/ SearchSend

SpecSearch == InitSearch /\ [][NextSearch]_vars

(***************************************************************************)
(* LinkCheckerPlugin (src/helper/link_checker.py). Its texts are sequences  *)
(* of characters.                                                          *)
(***************************************************************************)
\* The first position of p in s, 0 when p is not in s: s.find(p) + 1
Find(s, p) ==
  LET at == {i \in 1..(Len(s) - Len(p) + 1) : SubSeq(s, i, i + Len(p) - 1) = p}
  IN  IF at = {} THEN 0 ELSE CHOOSE i \in at : \A j \in at : i <= j

\* s.split(c) for a separator of one character
Split(s, c) ==
  LET cuts == {i \in 1..Len(s) : s[i] = c}
      n == Cardinality(cuts)
      cut[k \in 0..(n + 1)] ==
        IF k = 0 THEN 0
        ELSE IF k = n + 1 THEN Len(s) + 1
        ELSE CHOOSE i \in cuts : Cardinality({j \in cuts : j < i}) = k - 1
  IN  [k \in 1..(n + 1) |-> SubSeq(s, cut[k - 1] + 1, cut[k] - 1)]

\* sep.join(lines)
Join(lines, sep) ==
  LET joined[k \in 0..Len(lines)] ==
        IF k = 0 THEN <<>>
        ELSE IF k = 1 THEN lines[1]
        ELSE joined[k - 1] \o sep \o lines[k]
  IN  joined[Len(lines)]

\* s.split(sep, 1)[0]
BeforeFirst(s, sep) ==
  IF Find(s, sep) = 0 THEN s ELSE SubSeq(s, 1, Find(s, sep) - 1)

\* s.replace(old, new)
RECURSIVE Replace(_, _, _)
Replace(s, old, new) ==
  LET i == Find(s, old)
  IN  IF i = 0 THEN s
      ELSE SubSeq(s, 1, i - 1) \o new \o Replace(SubSeq(s, i + Len(old), Len(s)), old, new)

NewLine == << "\n" >>

\* Mutant of UrlStoppers: the class excludes whitespace and quotes only
UrlStoppersWithoutBrackets == Whitespace \cup { "\"", "'" }

\* Line 24: the characters the class [^\s\)\]\"\'\>] excludes
UrlStoppers == Whitespace \cup { ")", "]", "\"", "'", ">" }

\* Line 24: the length of the match of https?:// at position i of text, 0 when none
SchemeLength(text, i) ==
  IF i + 6 <= Len(text) /\ SubSeq(text, i, i + 6) = Chars("http://") THEN 7
  ELSE IF i + 7 <= Len(text) /\ SubSeq(text, i, i + 7) = Chars("https://") THEN 8
  ELSE 0

\* Line 24: the last position of the match of url_pattern that starts at position
\* i of text, 0 when there is no match at i
MatchEnd(text, i) ==
  LET from == i + SchemeLength(text, i)
      stops == {j \in from..Len(text) : text[j] \in UrlStoppers}
      to == IF stops = {} THEN Len(text)
            ELSE (CHOOSE j \in stops : \A k \in stops : j <= k) - 1
  IN  IF SchemeLength(text, i) = 0 \/ to < from THEN 0 ELSE to

\* Line 25: re.findall scans the text from the left; the matches do not overlap
RECURSIVE FindAllFrom(_, _)
FindAllFrom(text, i) ==
  IF i > Len(text) THEN <<>>
  ELSE IF MatchEnd(text, i) = 0 THEN FindAllFrom(text, i + 1)
  ELSE << [from |-> i, to |-> MatchEnd(text, i)] >> \o FindAllFrom(text, MatchEnd(text, i) + 1)

\* Line 25: urls = re.findall(url_pattern, text)
FindAll(text) ==
  LET spans == FindAllFrom(text, 1)
  IN  [k \in 1..Len(spans) |-> SubSeq(text, spans[k].from, spans[k].to)]

\* Lines 17 to 30
extract_urls(text) ==
  IF FindAll(text) = <<>>
  THEN Chars("No URLs found in the text.")
  ELSE Join(FindAll(text), NewLine)

\* The characters of a text, as a set
CharSet(s) == { s[i] : i \in 1..Len(s) }

\* str(n) of a natural number
RECURSIVE Str(_)
Str(n) ==
  IF n < 10 THEN << Chars("0123456789")[n + 1] >>
  ELSE Str(n \div 10) \o << Chars("0123456789")[(n % 10) + 1] >>

\* urllib.parse.urlparse(url).scheme: the characters before the first colon when
\* they are a letter followed by letters, digits, "+", "-" or "."
UrlScheme(url) ==
  LET colon == Find(url, << ":" >>)
      letters == CharSet(Chars("abcdefghijklmnopqrstuvwxyzABCDEFGHIJKLMNOPQRSTUVWXYZ"))
      others == CharSet(Chars("0123456789")) \cup CharSet(Chars("+-."))
  IN  IF /\ colon > 1
         /\ url[1] \in letters
         /\ \A i \in 2..(colon - 1) : url[i] \in letters \cup others
      THEN Lower(SubSeq(url, 1, colon - 1))
      ELSE <<>>

\* urllib.parse.urlparse(url).netloc: after the scheme and "//", the characters up
\* to the first "/", "?" or "#"
UrlNetloc(url) ==
  LET rest == IF UrlScheme(url) = <<>> THEN url
              ELSE SubSeq(url, Len(UrlScheme(url)) + 2, Len(url))
      after == SubSeq(rest, 3, Len(rest))
      ends == {i \in 1..Len(after) : after[i] \in CharSet(Chars("/?#"))}
  IN  IF ~StartsWith(rest, Chars("//")) THEN <<>>
      ELSE IF ends = {} THEN after
      ELSE SubSeq(after, 1, (CHOOSE i \in ends : \A j \in ends : i <= j) - 1)

\* urlparse raises ValueError("Invalid IPv6 URL") for a netloc with one bracket only
UrlParseRaises(url) ==
  ("[" \in CharSet(UrlNetloc(url))) # ("]" \in CharSet(UrlNetloc(url)))

\* Line 77: not parsed_url.scheme or not parsed_url.netloc
Malformed(url) == UrlScheme(url) = <<>> \/ UrlNetloc(url) = <<>>

\* Mutant of NothingToValidate: only the empty text is short-circuited
NothingToValidateEmptyOnly(urls) == urls = <<>>

\* Line 53: not urls or urls == "No URLs found in the text."
NothingToValidate(urls) ==
  urls = <<>> \/ urls = Chars("No URLs found in the text.")

\* Lines 56 to 57: the lines of urls that are not blank
UrlList(urls) ==
  SelectSeq(Split(Strip(urls), "\n"), LAMBDA u : Strip(u) # <<>>)

\* Lines 98 and 96: the lines of the report
ValidLine(url, status_code) ==
  Chars("VALID: ") \o url \o Chars(" - Status ") \o Str(status_code)

InvalidLine(url, message) ==
  Chars("INVALID: ") \o url \o Chars(" - ") \o message

\* Mutant of EarlyLines: a URL that does not parse is skipped without a line
EarlyLinesSkipped(url_list) == <<>>

\* Lines 69 to 83: the lines recorded before any check: a line for each URL that
\* does not parse or has no scheme or no host
RECURSIVE EarlyLines(_)
EarlyLines(url_list) ==
  IF url_list = <<>> THEN <<>>
  ELSE LET url == Strip(Head(url_list))
       IN  IF UrlParseRaises(url)
           THEN << InvalidLine(url, Chars("Invalid IPv6 URL")) >> \o EarlyLines(Tail(url_list))
           ELSE IF Malformed(url)
           THEN << InvalidLine(url, Chars("Malformed URL")) >> \o EarlyLines(Tail(url_list))
           ELSE EarlyLines(Tail(url_list))

\* Lines 69 to 86: the URLs that get a _check_url task, in the order of url_list
CheckedUrls(url_list) ==
  LET stripped == [k \in 1..Len(url_list) |-> Strip(url_list[k])]
  IN  SelectSeq(stripped, LAMBDA u : ~UrlParseRaises(u) /\ ~Malformed(u))

\* The results of _check_url
Success(status) == [success |-> TRUE, status_code |-> status, message |-> <<>>]

Failure(status, message) ==
  [success |-> FALSE, status_code |-> status, message |-> message]

NoCheck == [success |-> FALSE, status_code |-> 0, message |-> Unset]

\* The answers of a server: a response with a status (for a GET, whether its
\* content type is HTML and whether its body matches an error pattern) or a
\* failure of the request
Response(status, html, error_page) ==
  [kind |-> "response", status |-> status, html |-> html, error_page |-> error_page]

RequestFailure(kind) ==
  [kind |-> kind, status |-> 0, html |-> FALSE, error_page |-> FALSE]

NoAnswer == RequestFailure("none")

\* Mutant of Escalates: the GET request is made after a HEAD status only
EscalatesOnStatus(head) ==
  head.kind = "response" /\ head.status \in {404, 405, 403}

\* Line 153: except (aiohttp.ClientResponseError, aiohttp.ClientError) around the
\* HEAD request: the answers to HEAD after which the GET request is made
Escalates(head) ==
  \/ head.kind = "response" /\ head.status \in {404, 405, 403}
  \/ head.kind \in {"connector", "client"}

\* Lines 210 to 230: the result for a request that failed
FailureResult(kind) ==
  CASE kind = "connector" ->
         Failure(0, Chars("Connection error: Cannot connect to host"))
    [] kind = "client" -> Failure(0, Chars("Request error: Too many redirects"))
    [] kind = "timeout" -> Failure(0, Chars("Request timed out"))
    [] kind = "other" -> Failure(0, Chars("Unexpected error: Session is closed"))

\* Mutant of ResultOfHead: every status below 500 is a success
ResultOfHeadBelow500(head) ==
  IF head.kind = "response"
  THEN IF 200 <= head.status /\ head.status < 500
       THEN Success(head.status)
       ELSE Failure(head.status, Chars("HTTP Error: ") \o Str(head.status))
  ELSE FailureResult(head.kind)

\* Lines 121 to 151: the result of _check_url after an answer to HEAD that does not
\* lead to a GET
ResultOfHead(head) ==
  IF head.kind = "response"
  THEN IF 200 <= head.status /\ head.status < 400
       THEN Success(head.status)
       ELSE Failure(head.status, Chars("HTTP Error: ") \o Str(head.status))
  ELSE FailureResult(head.kind)

\* Lines 155 to 208: the result of _check_url after the answer to GET
ResultOfGet(get) ==
  IF get.kind = "response"
  THEN IF 200 <= get.status /\ get.status < 400
       THEN IF get.html /\ get.error_page
            THEN Failure(404,
                   Chars("Soft 404 detected: Page appears to be an error page despite 200 status"))
            ELSE Success(get.status)
       ELSE Failure(get.status, Chars("HTTP Error: ") \o Str(get.status))
  ELSE FailureResult(get.kind)

\* Lines 91 to 97: the lines of the report for the results of the checks, each
\* paired with the entry of url_list at its position
ReportLines(url_list, check_results) ==
  LET n == IF Len(url_list) < Len(check_results) THEN Len(url_list)
           ELSE Len(check_results)
  IN  [k \in 1..n |->
         IF check_results[k].success
         THEN ValidLine(url_list[k], check_results[k].status_code)
         ELSE InvalidLine(url_list[k], check_results[k].message)]

\* Mutant of InvalidLines: a line counts when INVALID: is anywhere in it
InvalidLinesAnywhere(lines) ==
  SelectSeq(lines, LAMBDA line : Contains(line, Chars("INVALID:")))

\* Lines 252 to 253: the lines that start with INVALID:
InvalidLines(lines) ==
  SelectSeq(lines, LAMBDA line : StartsWith(line, Chars("INVALID:")))

\* Mutant of IncorrectLine: the summary keeps the format of the report
IncorrectLineAsReported(link) == Chars("INVALID: ") \o link

\* Line 261: f"LINK INCORRECT - {link}"
IncorrectLine(link) == Chars("LINK INCORRECT - ") \o link

\* Lines 246 to 263
summarize_validation_results(validation_results) ==
  IF \/ validation_results = <<>>
     \/ validation_results = Chars("No URLs to validate.")
     \/ validation_results = Chars("No valid URLs to check.")
  THEN Chars("LINKS CORRECT")
  ELSE LET lines == Split(Strip(validation_results), "\n")
           invalid == InvalidLines(lines)
           invalid_links ==
             [k \in 1..Len(invalid) |->
                Strip(Replace(BeforeFirst(invalid[k], Chars(" - ")),
                              Chars("INVALID:"), <<>>))]
       IN  IF invalid_links # <<>>
           THEN Join([k \in 1..Len(invalid_links) |-> IncorrectLine(invalid_links[k])],
                     NewLine)
           ELSE Chars("LINKS CORRECT")

\* The failures of a request: no connection, a protocol error, a timeout, any
\* other exception
RequestFailures ==
  { RequestFailure(k) : k \in {"connector", "client", "timeout", "other"} }

\* Servers that answer every request with a status: the statuses of each class for
\* HEAD; a page, a page that is not HTML and a missing page for GET
StatusNet ==
  [heads |-> { Response(s, FALSE, FALSE) : s \in {200, 301, 400, 403, 404, 405, 500} },
   gets |-> { Response(200, TRUE, FALSE), Response(200, FALSE, TRUE),
              Response(404, TRUE, TRUE) },
   soft_pages |-> FALSE]

\* Servers whose requests may fail, for HEAD and for GET
FailureNet ==
  [heads |-> { Response(200, FALSE, FALSE), Response(404, FALSE, FALSE) }
               \cup RequestFailures,
   gets |-> { Response(200, TRUE, FALSE), Response(404, TRUE, TRUE) }
              \cup RequestFailures,
   soft_pages |-> FALSE]

\* Servers all of whose pages are soft 404s: a success status for GET with an HTML
\* body that matches an error pattern
SoftNet ==
  [heads |-> { Response(200, FALSE, FALSE), Response(301, FALSE, FALSE),
               Response(404, FALSE, FALSE), Response(500, FALSE, FALSE),
               RequestFailure("connector"), RequestFailure("timeout") },
   gets |-> { Response(200, TRUE, TRUE), RequestFailure("timeout") },
   soft_pages |-> TRUE]

Nets == { StatusNet, FailureNet, SoftNet }

\* Servers that answer, for the checks of a whole pipeline
QuietNet ==
  [heads |-> { Response(200, FALSE, FALSE), Response(404, FALSE, FALSE),
               RequestFailure("timeout") },
   gets |-> { Response(200, TRUE, FALSE), Response(200, TRUE, TRUE) },
   soft_pages |-> FALSE]

\* The texts given to extract_urls: up to MaxPieces pieces in a row
TextPieces ==
  { Chars("http://a"), Chars("https://"), Chars("ftp://"), Chars("b"),
    << " " >>, << "\n" >>, << ")" >>, << "(" >>, << "]" >>, << "\"" >>, << "'" >>,
    << ">" >> }

Texts ==
  { Join(pieces, <<>>) :
      pieces \in UNION { [1..n -> TextPieces] : n \in 0..MaxPieces } }

\* The urls given to validate_urls: up to MaxUrls URLs, one per line, well-formed,
\* without scheme, without host or unparseable; or no URL at all
UrlSet == { Chars("http://a"), Chars("a.b"), Chars("http:///c"), Chars("http://[d") }

UrlTexts ==
  { Join(list, NewLine) : list \in UNION { [1..n -> UrlSet] : n \in 1..MaxUrls } }
    \cup { <<>>, Chars("No URLs found in the text."), << " " >>,
           Chars("http://a") \o << " ", "\n" >> \o Chars("a.b") }

\* The reports given to summarize_validation_results: up to MaxLines lines, or
\* nothing
ReportPieces ==
  { Chars("VALID: http://a - Status 200"),
    Chars("INVALID: http://a - HTTP Error: 404"),
    Chars("INVALID: a.b - Malformed URL"),
    Chars(" INVALID: b - Request timed out"),
    Chars("INVALID: http://a/INVALID: - HTTP Error: 404"),
    Chars("INVALID: a - b - Malformed URL"),
    Chars("LINK INCORRECT - http://a"),
    Chars("LINKS CORRECT"),
    <<>> }

ReportTexts ==
  { Join(lines, NewLine) : lines \in UNION { [1..n -> ReportPieces] : n \in 1..MaxLines } }
    \cup { Chars("No URLs to validate."), Chars("No valid URLs to check.") }

\* The link check starts at position at: everything after it is not computed yet
LinksAt(at) ==
  /\ link_pc = at
  /\ link_url_list = <<>>
  /\ link_lines = <<>>
  /\ link_tasks = <<>>
  /\ link_requests = 0
  /\ link_summary = Unset
  /\ link_again = Unset

OnlyLinks ==
  /\ env = HistoryEnv
  /\ InitObject
  /\ GateIdle
  /\ PairIdle
  /\ SearchIdle

\* A text is given to extract_urls
InitLinks ==
  /\ OnlyLinks
  /\ LinksAt("extract")
  /\ link_net = QuietNet
  /\ link_text \in Texts
  /\ link_urls = Unset
  /\ link_output = Unset

\* A list of URLs is given to validate_urls
InitValidate ==
  /\ OnlyLinks
  /\ LinksAt("validate")
  /\ link_net \in Nets
  /\ link_text = Unset
  /\ link_urls \in UrlTexts
  /\ link_output = Unset

\* A report is given to summarize_validation_results
InitSummarize ==
  /\ OnlyLinks
  /\ LinksAt("summarize")
  /\ link_net = NoNet
  /\ link_text = Unset
  /\ link_urls = Unset
  /\ link_output \in ReportTexts

otherVars == << runVars, gateVars, pairVars, searchVars >>

\* extract_urls is called; its result is passed on to validate_urls
ExtractUrls ==
  /\ link_pc = "extract"
  /\ link_urls' = extract_urls(link_text)
  /\ link_pc' = "validate"
  /\ UNCHANGED << link_net, link_text, link_url_list, link_lines, link_tasks,
                  link_requests, link_output, link_summary, link_again >>
  /\ UNCHANGED otherVars

\* A _check_url task that has not started
NewTask(url) ==
  [url |-> url, state |-> "head", head |-> NoAnswer, get |-> NoAnswer,
   result |-> NoCheck]

\* Lines 53 to 86 of validate_urls: nothing to validate, or url_list is built, the
\* lines of the URLs that do not parse are recorded, a task is created for each
\* other URL
ValidateUrls ==
  /\ link_pc = "validate"
  /\ IF NothingToValidate(link_urls)
     THEN /\ link_output' = Chars("No URLs to validate.")
          /\ link_pc' = "summarize"
          /\ UNCHANGED << link_url_list, link_lines, link_tasks >>
     ELSE IF UrlList(link_urls) = <<>>
     THEN /\ link_output' = Chars("No valid URLs to check.")
          /\ link_pc' = "summarize"
          /\ UNCHANGED << link_url_list, link_lines, link_tasks >>
     ELSE /\ link_url_list' = UrlList(link_urls)
          /\ link_lines' = EarlyLines(UrlList(link_urls))
          /\ link_tasks' =
               [k \in 1..Len(CheckedUrls(UrlList(link_urls))) |->
                  NewTask(CheckedUrls(UrlList(link_urls))[k])]
          /\ link_pc' = "check"
          /\ UNCHANGED link_output
  /\ UNCHANGED << link_net, link_text, link_urls, link_requests, link_summary,
                  link_again >>
  /\ UNCHANGED otherVars

\* Lines 121 to 151 of _check_url, in one of the concurrent tasks: the HEAD request
CheckHead ==
  /\ link_pc = "check"
  /\ \E i \in DOMAIN link_tasks :
       /\ link_tasks[i].state = "head"
       /\ \E head \in link_net.heads :
            link_tasks' =
              [link_tasks EXCEPT ![i] =
                 IF Escalates(head)
                 THEN [@ EXCEPT !.state = "get", !.head = head]
                 ELSE [@ EXCEPT !.state = "done", !.head = head,
                                !.result = ResultOfHead(head)]]
  /\ link_requests' = link_requests + 1
  /\ UNCHANGED << link_net, link_pc, link_text, link_urls, link_url_list, link_lines,
                  link_output, link_summary, link_again >>
  /\ UNCHANGED otherVars

\* Lines 153 to 230 of _check_url, in one of the concurrent tasks: the GET request
CheckGet ==
  /\ link_pc = "check"
  /\ \E i \in DOMAIN link_tasks :
       /\ link_tasks[i].state = "get"
       /\ \E get \in link_net.gets :
            link_tasks' =
              [link_tasks EXCEPT ![i] =
                 [@ EXCEPT !.state = "done", !.get = get, !.result = ResultOfGet(get)]]
  /\ link_requests' = link_requests + 1
  /\ UNCHANGED << link_net, link_pc, link_text, link_urls, link_url_list, link_lines,
                  link_output, link_summary, link_again >>
  /\ UNCHANGED otherVars

\* Mutant of Gathered: gather returns with the first task that is done
GatheredFirst(tasks) == \E i \in DOMAIN tasks : tasks[i].state = "done"

\* Line 89: await asyncio.gather(*tasks) returns when every task is done
Gathered(tasks) == \A i \in DOMAIN tasks : tasks[i].state = "done"

\* Lines 89 to 99 of validate_urls: every task has returned; the lines of the
\* results are added and the report is returned
Gather ==
  /\ link_pc = "check"
  /\ Gathered(link_tasks)
  /\ LET check_results == [k \in DOMAIN link_tasks |-> link_tasks[k].result]
         results == link_lines \o ReportLines(link_url_list, check_results)
     IN  /\ link_lines' = results
         /\ link_output' = Join(results, NewLine)
  /\ link_pc' = "summarize"
  /\ UNCHANGED << link_net, link_text, link_urls, link_url_list, link_tasks,
                  link_requests, link_summary, link_again >>
  /\ UNCHANGED otherVars

\* summarize_validation_results is called with the report
Summarize ==
  /\ link_pc = "summarize"
  /\ link_summary' = summarize_validation_results(link_output)
  /\ link_pc' = "done"
  /\ UNCHANGED << link_net, link_text, link_urls, link_url_list, link_lines,
                  link_tasks, link_requests, link_output, link_again >>
  /\ UNCHANGED otherVars

\* summarize_validation_results is called with its own result
SummarizeAgain ==
  /\ link_pc = "done"
  /\ link_again' = summarize_validation_results(link_summary)
  /\ link_pc' = "again"
  /\ UNCHANGED << link_net, link_text, link_urls, link_url_list, link_lines,
                  link_tasks, link_requests, link_output, link_summary >>
  /\ UNCHANGED otherVars

NextLinks ==
  \/ ExtractUrls
  \/ ValidateUrls
  \/ CheckHead
  \/ CheckGet
  \/ Gather
  \/ Summarize

SpecLinks == InitLinks /\ [][NextLinks]_vars

NextValidate ==
  \/ ValidateUrls
  \/ CheckHead
  \/ CheckGet
  \/ Gather
  \/ Summarize

SpecValidate == InitValidate /\ [][NextValidate]_vars

NextSummarize ==
  \/ Summarize
  \/ SummarizeAgain

SpecSummarize == InitSummarize /\ [][NextSummarize]_vars

(***************************************************************************)
(* Properties.                                                             *)
(***************************************************************************)
\* A log entry's content starts with the sentinel p
EntryStarts(entry, p) == StartsWith(Chars(entry.content), Chars(p))

\* A negative verdict of a checker
IsNegative(entry) ==
  \/ entry.agent = AnswerCheckerAgent /\ EntryStarts(entry, "ANSWER INCORRECT")
  \/ entry.agent = LinkCheckerAgent /\ EntryStarts(entry, "LINK INCORRECT")

\* The position of the latest QuestionAnswererAgent entry of a log, 0 when none
LatestAnswerAt(log) ==
  LET at == {i \in 1..Len(log) : log[i].agent = QuestionAnswererAgent}
  IN  IF at = {} THEN 0 ELSE CHOOSE i \in at : \A j \in at : j <= i

\* C1: in every run of ask_question, whatever the agents answer, the group chat
\* executes at most 10 agent turns: at most 10 turns are started, at most 10 agent
\* messages are in the chat and in the log, during the run and in its result.
C1_TurnsWithinCap ==
  /\ iterations <= 10
  /\ Len(chat_history) <= 10 + 1
  /\ Len(agent_interactions) <= 10
  /\ Len(result.inner_monologue) <= 10

\* C1 witness: a run whose Manager never approved has executed its 10th turn.
C1_Witness ==
  /\ pc = "loop"
  /\ iterations = 10
  /\ Len(agent_interactions) = 10
  /\ ~is_complete

\* C2: every run of ask_question eventually ends: provided every turn returns, a
\* call in progress leads to a returned result (approved, capped or error).
C2_EveryRunEnds == (pc # "idle") ~> (pc = "idle" /\ result.returned)

\* C2 witness: a run that used all its turns without approval has returned.
C2_Witness ==
  /\ pc = "idle"
  /\ outcome = "capped"
  /\ result.returned
  /\ Len(result.inner_monologue) = 10

\* C3 as stated: the gate stops iff the latest message is the Manager's and
\* contains APPROVE compared case-insensitively.
C3_GateCaseInsensitiveOnMessage ==
  gate_out # "none" =>
    (gate_out = "stop" <=>
       /\ gate_agent = ManagerAgent
       /\ Contains(Upper(Chars(gate_message)), Chars("APPROVE")))

\* C3 amended: the gate stops iff the message is the Manager's and the termination
\* function's reply contains APPROVE compared case-insensitively; so it continues
\* for every other agent, stops for a Manager message containing APPROVE in upper
\* case, and continues for a Manager message without the word in any letter case.
C3_GateCaseInsensitiveOnReply ==
  gate_out # "none" =>
    /\ gate_out = "stop" <=>
         /\ gate_agent = ManagerAgent
         /\ \E i \in 0..(Len(Chars(gate_reply)) - 7) :
              Upper(SubSeq(Chars(gate_reply), i + 1, i + 7)) = Chars("APPROVE")
    /\ gate_agent # ManagerAgent => gate_out = "continue"
    /\ (gate_agent = ManagerAgent /\ Contains(Chars(gate_message), Chars("APPROVE")))
         => gate_out = "stop"
    /\ (gate_agent = ManagerAgent
          /\ ~Contains(Upper(Chars(gate_message)), Chars("APPROVE")))
         => gate_out = "continue"

\* C3 witness: the Manager said APPROVE, the function replied in lower case, and
\* the gate stopped.
C3_Witness ==
  /\ gate_agent = ManagerAgent
  /\ gate_message = "APPROVE"
  /\ gate_reply = "approve"
  /\ gate_out = "stop"

\* C4 as stated, for a Manager that obeys its rules: a run ends by approval only if,
\* after the QuestionAnswerer message returned as final_answer, the AnswerChecker
\* said ANSWER CORRECT and then the LinkChecker said LINKS CORRECT, with no negative
\* verdict and no newer answer in between.
C4_ApprovedOnlyAfterBothChecks ==
  (env.obedient /\ outcome = "approved") =>
    LET log == result.inner_monologue
        k == LatestAnswerAt(log)
    IN  /\ k > 0
        /\ log[k].content = result.final_answer
        /\ \E i \in (k + 1)..Len(log) : \E j \in (i + 1)..Len(log) :
             /\ log[i].agent = AnswerCheckerAgent
             /\ EntryStarts(log[i], "ANSWER CORRECT")
             /\ log[j].agent = LinkCheckerAgent
             /\ EntryStarts(log[j], "LINKS CORRECT")
             /\ \A m \in (i + 1)..(j - 1) : ~IsNegative(log[m])

\* C5: the selection follows the table for the latest message (user message or
\* Manager reject -> QuestionAnswerer; QuestionAnswerer -> AnswerChecker; ANSWER
\* INCORRECT -> QuestionAnswerer; ANSWER CORRECT -> LinkChecker; LINKS CORRECT ->
\* Manager), and the first agent to act in a run is the QuestionAnswerer.
C5_SelectionFollowsTable ==
  /\ pc = "invoke" =>
       LET last == LastMessage(chat_history)
           text == Chars(last.content)
       IN  /\ last.name = User => selected = QuestionAnswererAgent
           /\ (last.name = ManagerAgent /\ last.content = "reject")
                => selected = QuestionAnswererAgent
           /\ last.name = QuestionAnswererAgent => selected = AnswerCheckerAgent
           /\ (last.name = AnswerCheckerAgent /\ StartsWith(text, Chars("ANSWER INCORRECT")))
                => selected = QuestionAnswererAgent
           /\ (last.name = AnswerCheckerAgent /\ StartsWith(text, Chars("ANSWER CORRECT")))
                => selected = LinkCheckerAgent
           /\ (last.name = LinkCheckerAgent /\ StartsWith(text, Chars("LINKS CORRECT")))
                => selected = ManagerAgent
  /\ Len(chat_history) >= 2 => chat_history[2].name = QuestionAnswererAgent
  /\ Len(agent_interactions) >= 1 => agent_interactions[1].agent = QuestionAnswererAgent

\* C5 witness: the Manager has rejected after both checkers passed the answer, and
\* the QuestionAnswerer is selected again.
C5_Witness ==
  /\ pc = "invoke"
  /\ selected = QuestionAnswererAgent
  /\ Len(chat_history) >= 5
  /\ LastMessage(chat_history) = Message(ManagerAgent, "reject")
  /\ chat_history[Len(chat_history) - 1] = Message(LinkCheckerAgent, "LINKS CORRECT")

\* C6 as stated: after a LinkChecker message whose lines start with
\* "LINK INCORRECT - " the QuestionAnswerer is selected, and the Manager is selected
\* only for an answer that has passed both checkers.
C6_InvalidLinkRoutesToAnswerer ==
  pc = "invoke" =>
    LET last == LastMessage(chat_history)
    IN  /\ (last.name = LinkCheckerAgent
              /\ StartsWith(Chars(last.content), Chars("LINK INCORRECT - ")))
             => selected = QuestionAnswererAgent
        /\ selected = ManagerAgent
             => /\ last.name = LinkCheckerAgent
                /\ StartsWith(Chars(last.content), Chars("LINKS CORRECT"))

\* C7: after every processed message final_answer is the content of the latest
\* QuestionAnswererAgent entry of the log so far ("" when there is none), and the
\* final_answer of an approved run is the latest QuestionAnswererAgent entry of the
\* returned log, not the Manager's message that ends it.
C7_FinalAnswerIsLatestAnswer ==
  /\ pc = "loop" =>
       LET k == LatestAnswerAt(agent_interactions)
       IN  final_answer = IF k = 0 THEN "" ELSE agent_interactions[k].content
  /\ outcome = "approved" =>
       LET log == result.inner_monologue
           k == LatestAnswerAt(log)
       IN  /\ k > 0
           /\ result.final_answer = log[k].content
           /\ log[Len(log)].agent = ManagerAgent
           /\ result.final_answer # log[Len(log)].content
           /\ result.final_answer \in env.answers

\* C7 witness: an approved run whose first answer was rejected returns the second.
C7_Witness ==
  /\ outcome = "approved"
  /\ Len(result.inner_monologue) >= 6
  /\ result.inner_monologue[1].content = "answer one"
  /\ result.final_answer = "answer two"

\* C8: conversation_history has at most 5 entries and is exactly the min(n, 5) most
\* recent of the n exchanges that completed without exception, in the order asked.
C8_HistoryIsLastFive ==
  LET n == Len(completed)
      kept == IF n < 5 THEN n ELSE 5
  IN  /\ Len(conversation_history) <= 5
      /\ Len(conversation_history) = kept
      /\ \A i \in 1..kept : conversation_history[i] = completed[n - kept + i]

\* C8 witness: after 6 successful exchanges the history holds exchanges 2 to 6.
C8_Witness ==
  /\ Len(completed) = 6
  /\ completed[1].question # completed[2].question
  /\ conversation_history = SubSeq(completed, 2, 6)

\* C9: a call that ended on an exception raised inside the loop returned a log of
\* exactly one entry, of agent "System", and a final_answer carrying the error text,
\* however many messages had been logged.
C9_ExceptionBecomesSystemEntry ==
  outcome = "error" =>
    /\ result.returned
    /\ Len(result.inner_monologue) = 1
    /\ result.inner_monologue[1].agent = System
    /\ raised \in ExceptionTexts
    /\ Contains(Chars(result.inner_monologue[1].content), Chars(raised))
    /\ Contains(Chars(result.final_answer), Chars(raised))
    /\ StartsWith(Chars(result.final_answer), Chars("Error occurred: "))

\* C9 witness: the exception was raised after three messages had been logged.
C9_Witness ==
  /\ outcome = "error"
  /\ raised_after >= 3
  /\ raised = "timeout"

\* C10: a call that ends in the caught-exception outcome leaves conversation_history
\* as it was when the call started; nothing is appended, evicted or modified while
\* the call is in progress either.
C10_ErrorLeavesHistory ==
  (pc # "idle" \/ outcome = "error") => conversation_history = history0

\* C10 witness: a call on an object with a full history failed after an answer had
\* been logged.
C10_Witness ==
  /\ outcome = "error"
  /\ pc = "idle"
  /\ raised_after >= 1
  /\ Len(conversation_history) = 5

\* An entry of the log is the Manager's and contains APPROVE
IsApproval(entry) ==
  /\ entry.agent = ManagerAgent
  /\ Contains(Chars(entry.content), Chars("APPROVE"))

\* C11: the returned log tells an approved run from a capped one: its last entry is
\* a ManagerAgent message containing APPROVE iff the run ended by approval; after
\* the Manager's APPROVE no agent acts and nothing is logged, so an approval is
\* never followed by another entry, and a capped run never ends with one.
C11_ApprovalIsLastEntry ==
  /\ result.returned =>
       LET log == result.inner_monologue
       IN  /\ outcome = "approved" <=> IsApproval(log[Len(log)])
           /\ outcome = "capped" => Len(log) = 10 /\ ~IsApproval(log[10])
           /\ \A i \in 1..(Len(log) - 1) : ~IsApproval(log[i])
  /\ \A i \in 1..(Len(agent_interactions) - 1) : ~IsApproval(agent_interactions[i])
  /\ \A i \in 2..(Len(chat_history) - 1) :
       ~(/\ chat_history[i].name = ManagerAgent
         /\ Contains(Chars(chat_history[i].content), Chars("APPROVE")))

\* C11 witness: the Manager approved on the 10th and last turn of a run.
C11_Witness ==
  /\ outcome = "approved"
  /\ Len(result.inner_monologue) = 10
  /\ IsApproval(result.inner_monologue[10])

\* The agents' messages of a chat, as log entries: the chat without the user's message
NamedMessages(history) ==
  [i \in 1..(Len(history) - 1) |->
     [agent |-> history[i + 1].name, content |-> history[i + 1].content]]

\* C19: on a run that completes without exception the callback invocations, the
\* returned log and the named agent messages of the chat are the same sequence;
\* the log only grows by appending; the callback for message k has been invoked
\* when the agent of turn k+1 is selected; exactly one agent acts per turn.
C19_CallbackMirrorsLog ==
  /\ [](/\ outcome \in {"approved", "capped"} =>
             /\ observed = result.inner_monologue
             /\ Len(observed) >= 1
        /\ pc = "loop" =>
             /\ observed = agent_interactions
             /\ agent_interactions = NamedMessages(chat_history)
             /\ Len(agent_interactions) = iterations
        /\ pc = "invoke" =>
             /\ observed = agent_interactions
             /\ agent_interactions = NamedMessages(chat_history)
             /\ Len(observed) = iterations - 1
        /\ pc = "process" =>
             /\ observed = agent_interactions
             /\ NamedMessages(chat_history) =
                  Append(agent_interactions,
                         [agent |-> content.name, content |-> content.content])
             /\ Len(chat_history) - 1 = iterations)
  /\ [][/\ \/ agent_interactions' = agent_interactions
           \/ /\ Len(agent_interactions') = Len(agent_interactions) + 1
              /\ SubSeq(agent_interactions', 1, Len(agent_interactions))
                   = agent_interactions
           \/ pc' = "idle"
        /\ (pc = "loop" /\ pc' = "idle" /\ outcome' # "error") =>
             /\ result'.inner_monologue = agent_interactions
             /\ observed' = agent_interactions
             /\ agent_interactions = NamedMessages(chat_history)]_vars

\* C19 witness: a run of 10 turns has completed and its callback saw 10 messages.
C19_Witness ==
  /\ outcome = "capped"
  /\ Len(observed) = 10
  /\ observed = result.inner_monologue

\* The sentinel prefixes of the checkers' verdicts
Sentinels ==
  { "ANSWER INCORRECT", "ANSWER CORRECT", "LINKS INCORRECT", "LINKS CORRECT",
    "LINK INCORRECT" }

\* The sentinels a text starts with
SentinelsOf(text) == { s \in Sentinels : StartsWith(Chars(text), Chars(s)) }

\* Two latest messages present the same last speaker and the same sentinel prefix
SameSelectorInput(a, b) ==
  /\ a.name = b.name
  /\ \/ a.name \in {User, QuestionAnswererAgent}
     \/ /\ a.name \in {AnswerCheckerAgent, LinkCheckerAgent}
        /\ SentinelsOf(a.content) # {}
        /\ SentinelsOf(a.content) = SentinelsOf(b.content)

\* C20 as stated: two chats stepped side by side whose latest messages present the
\* same last speaker and the same sentinel prefix select the same next agent,
\* whatever came before in either chat.
C20_SameInputSameNextAgent ==
  (/\ pair_next[1] # ""
   /\ pair_next[2] # ""
   /\ SameSelectorInput(LastMessage(pair_history[1]), LastMessage(pair_history[2])))
  => pair_next[1] = pair_next[2]

\* C18: with BING_SEARCH_API_KEY unset or empty, search_web returns the fixed
\* unavailability message verbatim for every query and argument combination,
\* issues no HTTP request and raises no exception.
C18_NoKeyGivesFixedMessage ==
  (search_input.key = None \/ search_input.key = "") =>
    /\ search_requests = 0
    /\ search_result.kind # "raised"
    /\ search_pc \in {"idle", "start", "done"}
    /\ search_pc = "done" =>
         search_result =
           [kind |-> "returned",
            text |-> "Web search is currently unavailable because no Bing Search API key was provided."]

\* C18 witness: a call with an empty key, a failing session state and up_to_date
\* set has returned the message.
C18_Witness ==
  /\ search_pc = "done"
  /\ search_input.key = ""
  /\ search_input.up_to_date
  /\ search_input.session = "raises"
  /\ search_result.text = UnavailableMessage

\* The input URLs of validate_urls: the lines of urls that are not blank, without
\* the blanks around them
InputUrls(urls) ==
  LET lines == SelectSeq(Split(urls, "\n"), LAMBDA u : Strip(u) # <<>>)
  IN  [k \in 1..Len(lines) |-> Strip(lines[k])]

\* A line of the report is a verdict on url
IsVerdictOn(line, url) ==
  \/ StartsWith(line, Chars("VALID: ") \o url \o Chars(" - Status "))
  \/ StartsWith(line, Chars("INVALID: ") \o url \o Chars(" - "))

\* C12 as stated: for every non-empty list of input URLs, malformed and well-formed
\* mixed, the report of validate_urls has exactly one line per input URL, in input
\* order, each a VALID or INVALID line on that input URL.
C12_OneLinePerInputUrl ==
  (/\ link_pc \in {"summarize", "done"}
   /\ link_urls # Unset
   /\ link_urls # Chars("No URLs found in the text.")
   /\ InputUrls(link_urls) # <<>>)
  => LET report == Split(link_output, "\n")
         input == InputUrls(link_urls)
     IN  /\ Len(report) = Len(input)
         /\ \A k \in 1..Len(input) : IsVerdictOn(report[k], input[k])

\* C13 as stated: a URL whose page is a soft 404 is reported INVALID whatever the
\* server answers to the HEAD request: where every page is one, no line is VALID.
C13_SoftPageReportedInvalid ==
  (link_net.soft_pages /\ link_pc \in {"summarize", "done"})
  => \A k \in 1..Len(link_lines) : StartsWith(link_lines[k], Chars("INVALID: "))

\* The number of lines that start with INVALID:
InvalidCount(lines) ==
  Cardinality({k \in 1..Len(lines) : StartsWith(lines[k], Chars("INVALID:"))})

\* A summary has exactly k lines, each starting with LINK INCORRECT -
IsSummaryOf(summary, k) ==
  /\ Len(Split(summary, "\n")) = k
  /\ \A j \in 1..k : StartsWith(Split(summary, "\n")[j], Chars("LINK INCORRECT - "))

\* C14 as stated: summarize_validation_results returns exactly LINKS CORRECT for an
\* input none of whose lines starts with INVALID:, and exactly k lines starting
\* with LINK INCORRECT - for an input with k >= 1 such lines.
C14_CountsInvalidLines ==
  link_summary # Unset =>
    LET k == InvalidCount(Split(link_output, "\n"))
    IN  IF k = 0 THEN link_summary = Chars("LINKS CORRECT")
        ELSE IsSummaryOf(link_summary, k)

\* The text of a line of the summary after LINK INCORRECT -
LinkOf(line) == SubSeq(line, Len(Chars("LINK INCORRECT - ")) + 1, Len(line))

\* C14 amended: the lines are those of the input without the whitespace around it
\* (a blank before INVALID: on the first line does not hide it). With no such line
\* starting with INVALID:, empty input and the two sentinels included, the result
\* is exactly LINKS CORRECT; with k >= 1 it is exactly k lines starting with
\* LINK INCORRECT -, the j-th naming a text of the j-th INVALID line.
C14_CountsInvalidLinesOfStrippedInput ==
  link_summary # Unset =>
    LET lines == Split(Strip(link_output), "\n")
        at == {i \in 1..Len(lines) : StartsWith(lines[i], Chars("INVALID:"))}
        k == Cardinality(at)
        nth(j) == CHOOSE i \in at : Cardinality({h \in at : h < i}) = j - 1
    IN  IF k = 0 THEN link_summary = Chars("LINKS CORRECT")
        ELSE /\ IsSummaryOf(link_summary, k)
             /\ \A j \in 1..k :
                  Contains(lines[nth(j)], LinkOf(Split(link_summary, "\n")[j]))

\* C14 witness: a report with two INVALID lines has been summarized in two lines.
C14_Witness ==
  /\ link_pc = "done"
  /\ InvalidCount(Split(Strip(link_output), "\n")) = 2
  /\ Len(Split(link_summary, "\n")) = 2
  /\ Split(link_summary, "\n")[1] # Split(link_summary, "\n")[2]

\* C15 as stated: summarizing a summary gives the summary back, for every input.
C15_SummaryOfSummaryIsSummary ==
  link_again # Unset => link_again = link_summary

\* C15 amended: the summary of a summary is always LINKS CORRECT, so summarizing
\* is idempotent exactly on the inputs whose summary is LINKS CORRECT, those
\* without INVALID line; an input with INVALID lines is summarized in LINK
\* INCORRECT lines and those in LINKS CORRECT.
C15_SummaryOfSummaryIsCorrect ==
  link_again # Unset =>
    /\ link_again = Chars("LINKS CORRECT")
    /\ link_again = link_summary <=>
         InvalidCount(Split(Strip(link_output), "\n")) = 0

\* C15 witness: a report with an INVALID line has been summarized twice.
C15_Witness ==
  /\ link_pc = "again"
  /\ InvalidCount(Split(Strip(link_output), "\n")) = 1
  /\ StartsWith(link_summary, Chars("LINK INCORRECT - "))
  /\ link_again = Chars("LINKS CORRECT")

\* A URL-shaped substring may start at position i of text: http:// or https://
\* followed by a character that is not in stops
UrlStartsAt(text, i, stops) ==
  \E scheme \in { Chars("http://"), Chars("https://") } :
    /\ i + Len(scheme) <= Len(text)
    /\ SubSeq(text, i, i + Len(scheme) - 1) = scheme
    /\ text[i + Len(scheme)] \notin stops

\* The last position of the run of characters not in stops that holds position i
RunEnd(text, i, stops) ==
  CHOOSE j \in i..Len(text) :
    /\ \A h \in i..j : text[h] \notin stops
    /\ j = Len(text) \/ text[j + 1] \in stops

\* The URL-shaped substrings of text, from the left and without overlap: the
\* positions where they start
UrlStarts(text, stops) ==
  LET upto[i \in 0..Len(text)] ==
        IF i = 0 THEN {}
        ELSE IF /\ UrlStartsAt(text, i, stops)
                /\ \A j \in upto[i - 1] : RunEnd(text, j, stops) < i
             THEN upto[i - 1] \cup {i}
             ELSE upto[i - 1]
  IN  upto[Len(text)]

\* The URL-shaped substrings of text in order of appearance
UrlsIn(text, stops) ==
  LET at == UrlStarts(text, stops)
      nth(k) == CHOOSE i \in at : Cardinality({h \in at : h < i}) = k - 1
  IN  [k \in 1..Cardinality(at) |-> SubSeq(text, nth(k), RunEnd(text, nth(k), stops))]

\* What extract_urls is to return for the URL-shaped substrings defined by stops:
\* the sentinel when there is none, else the substrings one per line, none of them
\* holding a character of stops
ExtractsUrls(text, urls, stops) ==
  LET expected == UrlsIn(text, stops)
  IN  IF expected = <<>>
      THEN urls = Chars("No URLs found in the text.")
      ELSE /\ Split(urls, "\n") = expected
           /\ \A k \in 1..Len(expected) : CharSet(Split(urls, "\n")[k]) \cap stops = {}

Brackets == { "(", ")", "[", "]", "{", "}", "<", ">" }

Quotes == { "\"", "'" }

\* C17 as stated: extract_urls returns the sentinel for a text without URL-shaped
\* substring and else exactly the substrings made of http:// or https:// and a
\* maximal run of characters that are not whitespace, brackets or quotes, one per
\* line, in order, duplicates kept, none containing such a character.
C17_ExtractsRunsWithoutBrackets ==
  (link_text # Unset /\ link_urls # Unset)
  => ExtractsUrls(link_text, link_urls, Whitespace \cup Brackets \cup Quotes)

\* C17 amended: the run ends at whitespace, at a closing bracket ")", "]" or ">"
\* or at a quote; an opening bracket is part of the URL. extract_urls returns the
\* sentinel for a text without such a substring and else exactly these
\* substrings, one per line, in order of appearance, duplicates kept, none
\* containing whitespace, a closing bracket or a quote.
C17_ExtractsRunsWithoutClosers ==
  (link_text # Unset /\ link_urls # Unset)
  => ExtractsUrls(link_text, link_urls, Whitespace \cup { ")", "]", ">" } \cup Quotes)

\* C17 witness: the same URL was extracted twice from a text.
C17_Witness ==
  /\ link_text # Unset
  /\ link_urls # Unset
  /\ Len(Split(link_urls, "\n")) = 2
  /\ Split(link_urls, "\n")[1] = Split(link_urls, "\n")[2]
  /\ StartsWith(link_urls, Chars("http://"))

\* C16: for a text containing no URL the pipeline extract_urls, validate_urls,
\* summarize_validation_results yields LINKS CORRECT: the extractor's sentinel is
\* answered by the validator with its nothing-to-validate result, without task
\* or network request, and the summarizer treats that result as a pass.
C16_NoUrlGivesLinksCorrect ==
  (link_text # Unset /\ UrlStarts(link_text, UrlStoppers) = {})
  => /\ link_requests = 0
     /\ link_tasks = <<>>
     /\ link_pc # "check"
     /\ link_urls \in { Unset, Chars("No URLs found in the text.") }
     /\ link_output \in { Unset, Chars("No URLs to validate.") }
     /\ link_summary \in { Unset, Chars("LINKS CORRECT") }
     /\ link_pc = "done" => link_summary = Chars("LINKS CORRECT")

\* C16 witness: a text that names a scheme but no URL has gone through the pipeline.
C16_Witness ==
  /\ link_pc = "done"
  /\ link_text # Unset
  /\ Contains(link_text, Chars("https://"))
  /\ link_urls = Chars("No URLs found in the text.")
  /\ link_summary = Chars("LINKS CORRECT")

\* The URLs whose own check failed: those that do not parse or have no scheme or
\* no host, and those whose _check_url task returned a failure
FailedUrls ==
  { Strip(link_url_list[k]) : k \in { h \in 1..Len(link_url_list) :
      UrlParseRaises(Strip(link_url_list[h])) \/ Malformed(Strip(link_url_list[h])) } }
    \cup { link_tasks[i].url : i \in { h \in 1..Len(link_tasks) :
             ~link_tasks[h].result.success } }

\* The URLs named on the LINK INCORRECT lines of a summary
NamedIncorrect(summary) ==
  LET lines == Split(summary, "\n")
  IN  { LinkOf(lines[k]) : k \in { h \in 1..Len(lines) :
          StartsWith(lines[h], Chars("LINK INCORRECT - ")) } }

\* C21 as stated: the URLs named on the LINK INCORRECT lines of the pipeline are
\* exactly the input URLs whose own check failed, and every line of the report of
\* validate_urls for a checked URL carries the result of the check made on the
\* URL it names, whatever the order of malformed and well-formed URLs.
C21_LinesNameTheUrlChecked ==
  (link_pc = "done" /\ link_url_list # <<>>)
  => /\ NamedIncorrect(link_summary) = FailedUrls
     /\ \A k \in 1..Len(link_lines) :
          \/ link_lines[k] \in { EarlyLines(link_url_list)[h] :
                                   h \in 1..Len(EarlyLines(link_url_list)) }
          \/ \E i \in 1..Len(link_tasks) :
               link_lines[k] =
                 IF link_tasks[i].result.success
                 THEN ValidLine(link_tasks[i].url, link_tasks[i].result.status_code)
                 ELSE InvalidLine(link_tasks[i].url, link_tasks[i].result.message)

\* The result of a finished _check_url task as its own answers decide it
OwnResult(task) ==
  IF Escalates(task.head) THEN ResultOfGet(task.get) ELSE ResultOfHead(task.head)

\* C22 as stated: a check that fails neither aborts nor alters the other checks of
\* the same validate_urls call: when the report is returned every task has run to
\* completion with the result its own answers decide, every check is reported,
\* and each failed check yields an INVALID line for exactly the URL that was
\* checked.
C22_FailureStaysWithItsUrl ==
  (link_pc \in {"summarize", "done"} /\ link_url_list # <<>>)
  => LET early == Len(EarlyLines(link_url_list))
     IN  /\ \A i \in 1..Len(link_tasks) :
               /\ link_tasks[i].state = "done"
               /\ link_tasks[i].result = OwnResult(link_tasks[i])
         /\ Len(link_lines) = early + Len(link_tasks)
         /\ \A i \in 1..Len(link_tasks) :
               IF link_tasks[i].result.success
               THEN StartsWith(link_lines[early + i], Chars("VALID: "))
               ELSE link_lines[early + i] =
                      InvalidLine(link_tasks[i].url, link_tasks[i].result.message)

\* The line of the report for a result printed under the name url
LineFor(url, check_result) ==
  IF check_result.success THEN ValidLine(url, check_result.status_code)
  ELSE InvalidLine(url, check_result.message)

\* C23: validate_urls returns only after every check it launched is done (no
\* report while a check is running, every task done once there is one), and its
\* report is fixed by the URL list and the answers each check received: the lines
\* of the URLs that do not parse, then one line per check in the order the checks
\* were launched, whatever the order in which they made their requests and
\* finished; the result of a check depends on its own answers only.
C23_ReportFixedByAnswers ==
  /\ link_pc = "check" => link_output = Unset
  /\ (link_pc \in {"summarize", "done"} /\ link_url_list # <<>>)
     => /\ \A i \in 1..Len(link_tasks) :
             /\ link_tasks[i].state = "done"
             /\ link_tasks[i].result = OwnResult(link_tasks[i])
        /\ link_output =
             Join(EarlyLines(link_url_list)
                    \o [k \in 1..Len(link_tasks) |->
                          LineFor(link_url_list[k], OwnResult(link_tasks[k]))],
                  NewLine)

\* C23 witness: two checks ran concurrently, the first needed a GET request and the
\* second failed on its HEAD request; the report has their lines in launch order.
C23_Witness ==
  /\ link_pc = "summarize"
  /\ Len(link_tasks) = 2
  /\ link_requests = 3
  /\ link_tasks[1].get # NoAnswer
  /\ link_tasks[1].result.success
  /\ ~link_tasks[2].result.success
  /\ Len(Split(link_output, "\n")) = 2
  /\ StartsWith(Split(link_output, "\n")[1], Chars("VALID: "))
  /\ StartsWith(Split(link_output, "\n")[2], Chars("INVALID: "))

\* The last answer a finished check received
LastAnswer(task) == IF task.get # NoAnswer THEN task.get ELSE task.head

\* The message reported for a request that failed by a connection failure, a
\* protocol error or a timeout
TransportMessage(kind) ==
  CASE kind = "connector" -> Chars("Connection error: Cannot connect to host")
    [] kind = "client" -> Chars("Request error: Too many redirects")
    [] kind = "timeout" -> Chars("Request timed out")

\* C24 as stated: a connection failure, protocol error or timeout of a request is
\* reported as INVALID with its own message after a single attempt: the GET
\* request is made only after a HEAD status 404, 405 or 403, never after a HEAD
\* request that failed.
C24_SingleAttemptAfterFailure ==
  link_pc \in {"summarize", "done"} =>
    \A i \in 1..Len(link_tasks) :
      LET task == link_tasks[i]
      IN  /\ task.get # NoAnswer
               => task.head.kind = "response" /\ task.head.status \in {404, 405, 403}
          /\ task.head.kind \in {"connector", "client", "timeout"}
               => /\ task.get = NoAnswer
                  /\ task.result = Failure(0, TransportMessage(task.head.kind))

\* C24 amended: the GET request is made exactly when the HEAD request returned
\* status 404, 405 or 403 or failed by a connection failure or protocol error; a
\* HEAD request that timed out is not followed by another request; at most two
\* requests are made per URL. When the last request made for a URL fails by a
\* connection failure, a protocol error or a timeout, the URL is reported INVALID
\* with a message of its own for each of the three cases.
C24_GetAfterStatusOrClientError ==
  link_pc \in {"summarize", "done"} =>
    /\ link_requests <= 2 * Len(link_tasks)
    /\ \A i \in 1..Len(link_tasks) :
         LET task == link_tasks[i]
             last == LastAnswer(task)
             line == link_lines[Len(link_lines) - Len(link_tasks) + i]
         IN  /\ task.get # NoAnswer
                  <=> \/ task.head.kind = "response"
                         /\ task.head.status \in {404, 405, 403}
                      \/ task.head.kind \in {"connector", "client"}
             /\ last.kind \in {"connector", "client", "timeout"}
                  => /\ ~task.result.success
                     /\ task.result.message = TransportMessage(last.kind)
                     /\ StartsWith(line, Chars("INVALID: "))
                     /\ SubSeq(line, Len(line) - Len(TransportMessage(last.kind)) + 1,
                               Len(line)) = TransportMessage(last.kind)
                     /\ \A other \in {"connector", "client", "timeout"} \ {last.kind} :
                          TransportMessage(other) # TransportMessage(last.kind)

\* C24 witness: the HEAD request of a URL failed to connect, the GET request made
\* after it timed out, and the URL is reported INVALID as timed out.
C24_Witness ==
  /\ link_pc = "summarize"
  /\ Len(link_tasks) = 1
  /\ link_requests = 2
  /\ link_tasks[1].head.kind = "connector"
  /\ link_tasks[1].get.kind = "timeout"
  /\ link_output = InvalidLine(link_tasks[1].url, Chars("Request timed out"))

\* A line of the report ends with text
EndsWith(line, text) ==
  /\ Len(text) <= Len(line)
  /\ SubSeq(line, Len(line) - Len(text) + 1, Len(line)) = text

\* C25: for a HEAD request answered with a status, _check_url returns success with
\* that status and makes no GET for 200 to 399; makes the GET for 404, 405 or 403
\* and returns what the GET decides (success for a GET status 200 to 399 without
\* soft-error match, failure with the GET status for any other GET status);
\* returns the failure HTTP Error: <status> and makes no GET for every other
\* status. The line reported for the check says so.
C25_HeadStatusClasses ==
  \A i \in 1..Len(link_tasks) :
    LET task == link_tasks[i]
        head == task.head
        get == task.get
        http_error(status) == Chars("HTTP Error: ") \o Str(status)
        reported == link_pc \in {"summarize", "done"}
        line == link_lines[Len(link_lines) - Len(link_tasks) + i]
    IN  (task.state = "done" /\ head.kind = "response") =>
          IF 200 <= head.status /\ head.status < 400
          THEN /\ get = NoAnswer
               /\ task.result.success
               /\ task.result.status_code = head.status
               /\ reported => /\ StartsWith(line, Chars("VALID: "))
                              /\ EndsWith(line, Chars(" - Status ") \o Str(head.status))
          ELSE IF head.status \in {404, 405, 403}
          THEN /\ get # NoAnswer
               /\ (get.kind = "response" /\ 200 <= get.status /\ get.status < 400
                     /\ ~(get.html /\ get.error_page))
                    => /\ task.result.success
                       /\ task.result.status_code = get.status
                       /\ reported => StartsWith(line, Chars("VALID: "))
               /\ (get.kind = "response" /\ ~(200 <= get.status /\ get.status < 400))
                    => /\ ~task.result.success
                       /\ task.result.status_code = get.status
                       /\ reported => /\ StartsWith(line, Chars("INVALID: "))
                                      /\ EndsWith(line, http_error(get.status))
          ELSE /\ get = NoAnswer
               /\ ~task.result.success
               /\ task.result.status_code = head.status
               /\ task.result.message = http_error(head.status)
               /\ reported => /\ StartsWith(line, Chars("INVALID: "))
                              /\ EndsWith(line, Chars(" - ") \o http_error(head.status))

\* C25 witness: one URL was refused on HEAD with 403 and not found on GET, another
\* answered HEAD with 500; both are reported with HTTP Error and their status.
C25_Witness ==
  /\ link_pc = "summarize"
  /\ Len(link_tasks) = 2
  /\ link_tasks[1].head = Response(403, FALSE, FALSE)
  /\ link_tasks[1].get.kind = "response"
  /\ link_tasks[1].get.status = 404
  /\ link_tasks[2].head = Response(500, FALSE, FALSE)
  /\ link_requests = 3
  /\ EndsWith(link_lines[1], Chars("HTTP Error: 404"))
  /\ EndsWith(link_lines[2], Chars("HTTP Error: 500"))

\* The entries of url_list without the blanks around them
CleanUrls == [k \in 1..Len(link_url_list) |-> Strip(link_url_list[k])]

\* A URL that parses and has no scheme or no host
LacksSchemeOrHost(url) == ~UrlParseRaises(url) /\ Malformed(url)

\* C26 as stated: for a URL without scheme or without host validate_urls records
\* INVALID: <url> - Malformed URL, makes no request for it (no task is created for
\* it), and still checks and reports every other URL of the list: each well-formed
\* URL has a task and a line on that URL with the result of its check.
C26_MalformedUrlIsSetAside ==
  link_pc \in {"summarize", "done"} =>
    \A k \in 1..Len(CleanUrls) :
      LacksSchemeOrHost(CleanUrls[k]) =>
        /\ \E h \in 1..Len(link_lines) :
             link_lines[h] = InvalidLine(CleanUrls[k], Chars("Malformed URL"))
        /\ \A i \in 1..Len(link_tasks) : link_tasks[i].url # CleanUrls[k]
        /\ link_requests <= 2 * Len(link_tasks)
        /\ \A j \in 1..Len(CleanUrls) :
             (~UrlParseRaises(CleanUrls[j]) /\ ~Malformed(CleanUrls[j])) =>
               \E i \in 1..Len(link_tasks) : \E h \in 1..Len(link_lines) :
                 /\ link_tasks[i].url = CleanUrls[j]
                 /\ link_tasks[i].state = "done"
                 /\ link_lines[h] = LineFor(CleanUrls[j], link_tasks[i].result)

\* The URLs and the reasons of the INVALID lines of the reports
ReportUrls ==
  { Chars("http://a"), Chars("a.b"), Chars("b"), Chars("http://a/INVALID:"),
    Chars("a - b") }

ReportReasons ==
  { Chars("HTTP Error: 404"), Chars("Malformed URL"), Chars("Request timed out") }

\* C27 as stated: for every line INVALID: <url> - <reason> of the report
\* summarize_validation_results emits LINK INCORRECT - <url> with exactly that
\* URL, also when the URL contains INVALID: or " - ".
C27_SummaryKeepsTheUrl ==
  link_summary # Unset =>
    LET lines == Split(Strip(link_output), "\n")
        at == {i \in 1..Len(lines) : StartsWith(lines[i], Chars("INVALID:"))}
        nth(j) == CHOOSE i \in at : Cardinality({h \in at : h < i}) = j - 1
        summary == Split(link_summary, "\n")
    IN  \A j \in 1..Cardinality(at) : \A url \in ReportUrls : \A reason \in ReportReasons :
          lines[nth(j)] = InvalidLine(url, reason)
            => /\ j <= Len(summary)
               /\ summary[j] = IncorrectLine(url)

\* C28 as stated: with a key configured search_web never raises: the call returns
\* a text, and a call whose lookup of the session state failed returns a text that
\* starts with Error during web search:
C28_SearchNeverRaises ==
  (has_bing_api_key(search_input.key) /\ search_pc = "done")
  => /\ search_result.kind = "returned"
     /\ search_input.session = "raises"
          => StartsWith(Chars(search_result.text), Chars("Error during web search:"))

\* The number of input URLs that do not parse or have no scheme or no host, and
\* the number of checks that failed
MalformedCount ==
  Cardinality({k \in 1..Len(CleanUrls) :
                 UrlParseRaises(CleanUrls[k]) \/ Malformed(CleanUrls[k])})

FailedChecks ==
  Cardinality({i \in 1..Len(link_tasks) : ~link_tasks[i].result.success})

\* C29: for a non-empty list of input URLs the pipeline checks each well-formed
\* URL once, returns LINKS CORRECT if and only if every input URL is well-formed
\* and its check succeeded, and else returns as many LINK INCORRECT lines as
\* there are input URLs that are malformed or whose check failed.
C29_VerdictSoundAndComplete ==
  (link_pc = "done" /\ link_url_list # <<>>)
  => LET malformed == MalformedCount
         failed == malformed + FailedChecks
     IN  /\ Len(link_tasks) = Len(link_url_list) - malformed
         /\ [i \in 1..Len(link_tasks) |-> link_tasks[i].url] = CheckedUrls(link_url_list)
         /\ link_summary = Chars("LINKS CORRECT") <=> failed = 0
         /\ failed > 0 => IsSummaryOf(link_summary, failed)

\* C29 witness: of two input URLs the first has no scheme and the check of the
\* second succeeded; the pipeline returns one LINK INCORRECT line.
C29_Witness ==
  /\ link_pc = "done"
  /\ Len(link_url_list) = 2
  /\ Malformed(CleanUrls[1])
  /\ Len(link_tasks) = 1
  /\ link_tasks[1].url = CleanUrls[2]
  /\ link_tasks[1].result.success
  /\ IsSummaryOf(link_summary, 1)

\* C30: a run that reaches the cap of 10 turns without approval and without
\* exception returns the latest QuestionAnswerer message of its log as
\* final_answer ("" when the log has none) and appends the question with that
\* final_answer to conversation_history, cut to its last 5 exchanges, exactly as
\* an approved run does.
C30_CappedRunIsRecorded ==
  (pc = "idle" /\ outcome \in {"capped", "approved"}) =>
    LET log == result.inner_monologue
        k == LatestAnswerAt(log)
        n == Len(conversation_history)
        asked == completed[Len(completed)].question
    IN  /\ result.returned
        /\ outcome = "capped" => Len(log) <= 10 /\ \A i \in 1..Len(log) : ~IsApproval(log[i])
        /\ result.final_answer = IF k = 0 THEN "" ELSE log[k].content
        /\ asked \in env.questions
        /\ n = IF Len(history0) < 5 THEN Len(history0) + 1 ELSE 5
        /\ conversation_history[n] = [question |-> asked, answer |-> result.final_answer]
        /\ \A i \in 1..(n - 1) :
             conversation_history[i] = history0[Len(history0) - (n - 1) + i]

\* C30 witness: a run on an object with a full history used its 10 turns without
\* approval; its exchange is the newest of the history and the oldest is gone.
C30_Witness ==
  /\ pc = "idle"
  /\ outcome = "capped"
  /\ Len(result.inner_monologue) = 10
  /\ Len(history0) = 5
  /\ conversation_history[5].answer = result.final_answer
  /\ SubSeq(conversation_history, 1, 4) = SubSeq(history0, 2, 5)

\* C31 as stated: with a Manager that obeys its rules and a selection that follows
\* its table, the Manager is selected only right after a LINKS CORRECT verdict that
\* comes right after an ANSWER CORRECT verdict, so the Manager never says reject.
C31_ManagerOnlyApproves ==
  env.obedient =>
    /\ (pc = "invoke" /\ selected = ManagerAgent) =>
         LET n == Len(chat_history)
         IN  /\ n >= 3
             /\ chat_history[n].name = LinkCheckerAgent
             /\ StartsWith(Chars(chat_history[n].content), Chars("LINKS CORRECT"))
             /\ chat_history[n - 1].name = AnswerCheckerAgent
             /\ StartsWith(Chars(chat_history[n - 1].content), Chars("ANSWER CORRECT"))
    /\ \A i \in 1..Len(chat_history) :
         chat_history[i].name = ManagerAgent => chat_history[i].content = "APPROVE"

\* C32: the exchanges embedded in the QuestionAnswerer's instructions for a run
\* are exactly conversation_history as it was when the run started: all of its
\* entries, at most 5 (fewer than the window of 10), oldest first, namely the
\* latest exchanges completed before the run and never the exchange of the run
\* itself; they stay the same during the run, and between calls no agent exists.
C32_PersonaIsHistoryAtStart ==
  /\ pc # "idle" =>
       LET n == Len(persona_history)
           done == Len(completed)
       IN  /\ persona_history = history0
           /\ n <= 5
           /\ n < 10
           /\ n = IF done < 5 THEN done ELSE 5
           /\ \A i \in 1..n : persona_history[i] = completed[done - n + i]
           /\ calls > done
  /\ pc = "idle" => persona_history = <<>>

\* C32 witness: in the sixth call on the object, after five completed exchanges,
\* the QuestionAnswerer has answered; its instructions hold the five exchanges.
C32_Witness ==
  /\ pc = "process"
  /\ calls = 6
  /\ Len(completed) = 5
  /\ Len(persona_history) = 5
  /\ persona_history = conversation_history
  /\ content.name = QuestionAnswererAgent
  /\ persona_history[1].question # persona_history[2].question

\* C33: an exception raised by the callback given to ask_question ends the run as
\* a failing agent does: the call returns at once, no agent acts after the
\* message the callback was invoked with, the result is the single System entry
\* with an error final_answer, and conversation_history is as it was when the run
\* started, also when the QuestionAnswerer had answered.
C33_CallbackFailureIsCaught ==
  (outcome = "error" /\ observed # <<>>) =>
    /\ pc = "idle"
    /\ chat_history = <<>>
    /\ agent_interactions = <<>>
    /\ raised_after = Len(observed)
    /\ raised_after <= 10
    /\ result.returned
    /\ Len(result.inner_monologue) = 1
    /\ result.inner_monologue[1].agent = System
    /\ Contains(Chars(result.inner_monologue[1].content), Chars(raised))
    /\ StartsWith(Chars(result.final_answer), Chars("Error occurred: "))
    /\ Contains(Chars(result.final_answer), Chars(raised))
    /\ conversation_history = history0
    /\ \A i \in 1..Len(conversation_history) :
         conversation_history[i] = completed[Len(completed) - Len(conversation_history) + i]

\* C33 witness: on an object with a full history the callback raised when invoked
\* with the QuestionAnswerer's answer; the history still holds its five exchanges.
C33_Witness ==
  /\ outcome = "error"
  /\ pc = "idle"
  /\ Len(observed) = 1
  /\ observed[1].agent = QuestionAnswererAgent
  /\ observed[1].content = "answer one"
  /\ Len(conversation_history) = 5
  /\ conversation_history = history0

\* C34: an exception raised before the loop starts, while the agents and the chat
\* are created or the question is added to the chat, is not turned into the
\* System error result: it leaves ask_question, nothing is returned, no agent has
\* acted, and conversation_history is as it was before the call.
C34_EarlyExceptionPropagates ==
  outcome = "raised" =>
    /\ pc = "idle"
    /\ raised \in ExceptionTexts
    /\ ~result.returned
    /\ result.inner_monologue = <<>>
    /\ result.final_answer = ""
    /\ chat_history = <<>>
    /\ agent_interactions = <<>>
    /\ observed = <<>>
    /\ conversation_history = history0
    /\ Len(conversation_history) = IF Len(completed) < 5 THEN Len(completed) ELSE 5
    /\ \A i \in 1..Len(conversation_history) :
         conversation_history[i] = completed[Len(completed) - Len(conversation_history) + i]

\* C34 witness: the sixth call on an object with five exchanges in its history
\* raised before its loop started.
C34_Witness ==
  /\ outcome = "raised"
  /\ calls = 6
  /\ Len(completed) = 5
  /\ Len(conversation_history) = 5
  /\ ~result.returned

====
